---- MODULE Spec2Model ----
(***************************************************************************)
(* A model of the Lox tree-walking interpreter: lexer (lexer.rs), parser   *)
(* (parser.rs), resolver (resolver.rs) and evaluator (interpreter.rs,      *)
(* environment.rs, callable.rs, instance.rs).                              *)
(*                                                                         *)
(* The recursive functions of the source are RECURSIVE operators that      *)
(* thread the mutable state of `&mut self` explicitly; the loops that      *)
(* drive each phase (Lexer::scan, Parser::program, Resolver::resolve,      *)
(* Interpreter::interpret) are the actions of the state machine, one loop  *)
(* iteration per step.                                                     *)
(***************************************************************************)
EXTENDS Integers, Sequences, FiniteSets, TLC

VARIABLES
    phase,      \* "scan", "parse", "resolve", "run", "done", "panic", "loop"
    input,      \* the input of the run: a record naming the source and its words
    lx,         \* the Lexer and the locals of Lexer::scan: [l, output, has_error]
    tokens,     \* the token list handed to the parser
    ps,         \* the Parser and the locals of Parser::program
    rs,         \* the Resolver and the index of resolve()'s loop
    it,         \* the Interpreter with its heap of environments and instances
    out         \* the diagnostics reported so far, each with its stage

vars == <<phase, input, lx, tokens, ps, rs, it, out>>

(***************************************************************************)
(* Option<T>: None is the empty tuple, Some(x) the one-element tuple.      *)
(***************************************************************************)
None == <<>>
Some(x) == <<x>>
IsSome(o) == Len(o) = 1
Unwrap(o) == o[1]

(***************************************************************************)
(* Finite maps (HashMap) as functions over a finite domain.                *)
(***************************************************************************)
EmptyMap == <<>>
HasKey(m, k) == k \in DOMAIN m
Insert(m, k, v) == [x \in (DOMAIN m) \cup {k} |-> IF x = k THEN v ELSE m[x]]

(***************************************************************************)
(* Tokens (token.rs).  A token is [kind, line, column, text]: text is the  *)
(* identifier's name, the string's contents or the number's lexeme, and    *)
(* the empty string for every other kind.                                  *)
(***************************************************************************)
Token(kind, line, column, text) ==
    [kind |-> kind, line |-> line, column |-> column, text |-> text]

\* TokenKind::len
TokenKind_len(t) ==
    CASE t.kind = "Identifier" -> Len(t.text)
      [] t.kind = "String" -> Len(t.text) + 2
      [] t.kind = "Number" -> Len(t.text)
      [] t.kind \in {"LeftParen", "RightParen", "LeftBracket", "RightBracket",
                     "LeftCurly", "RightCurly", "Comma", "Dot", "Semicolon",
                     "QuestionMark", "Colon", "Plus", "Minus", "Slash", "Star",
                     "Bang", "GreaterThan", "LessThan", "Equals"} -> 1
      [] t.kind \in {"BangEqual", "GreaterEqual", "LessEqual", "DoubleEquals",
                     "If", "Or"} -> 2
      [] t.kind \in {"And", "Fun", "Nil", "Var", "For"} -> 3
      [] t.kind \in {"True", "This", "Else"} -> 4
      [] t.kind \in {"False", "While", "Class", "Super", "Print", "Break"} -> 5
      [] t.kind = "Return" -> 6
      [] t.kind = "Continue" -> 8
      [] t.kind = "Eof" -> 0

\* The keyword table of Lexer::scan_identifier.
KeywordKind ==
    [if |-> "If", else |-> "Else", for |-> "For", while |-> "While",
     break |-> "Break", continue |-> "Continue", var |-> "Var", fun |-> "Fun",
     return |-> "Return", class |-> "Class", this |-> "This",
     super |-> "Super", nil |-> "Nil", true |-> "True", false |-> "False",
     or |-> "Or", and |-> "And"]

\* The one- and two-byte punctuation of Lexer::scan_token.
PunctuationKind ==
    [x \in {"(", ")", "[", "]", "{", "}", ";", ",", ".", "-", "+", "?", ":",
            "*", "/", "<", ">", "!", "=", "<=", ">=", "!=", "=="} |->
       CASE x = "(" -> "LeftParen"   [] x = ")" -> "RightParen"
         [] x = "[" -> "LeftBracket" [] x = "]" -> "RightBracket"
         [] x = "{" -> "LeftCurly"   [] x = "}" -> "RightCurly"
         [] x = ";" -> "Semicolon"   [] x = "," -> "Comma"
         [] x = "." -> "Dot"         [] x = "-" -> "Minus"
         [] x = "+" -> "Plus"        [] x = "?" -> "QuestionMark"
         [] x = ":" -> "Colon"       [] x = "*" -> "Star"
         [] x = "/" -> "Slash"       [] x = "<" -> "LessThan"
         [] x = ">" -> "GreaterThan" [] x = "!" -> "Bang"
         [] x = "=" -> "Equals"      [] x = "<=" -> "LessEqual"
         [] x = ">=" -> "GreaterEqual" [] x = "!=" -> "BangEqual"
         [] x = "==" -> "DoubleEquals"]

\* The value of a decimal digit.
DigitValue ==
    [x \in {"0", "1", "2", "3", "4", "5", "6", "7", "8", "9"} |->
       CASE x = "0" -> 0 [] x = "1" -> 1 [] x = "2" -> 2 [] x = "3" -> 3
         [] x = "4" -> 4 [] x = "5" -> 5 [] x = "6" -> 6 [] x = "7" -> 7
         [] x = "8" -> 8 [] x = "9" -> 9]

\* TokenKind::Number { value, lexeme }
NumberToken(line, column, lexeme, value) ==
    [kind |-> "Number", line |-> line, column |-> column, text |-> lexeme,
     value |-> value]

\* The token Lexer::scan_token makes of one lexeme that starts at `column`;
\* the numeric literals of the one-line sources are single digits.
WordToken(w, column) ==
    IF w \in DOMAIN PunctuationKind THEN Token(PunctuationKind[w], 0, column, "")
    ELSE IF w \in DOMAIN DigitValue THEN NumberToken(0, column, w, DigitValue[w])
    ELSE IF w \in DOMAIN KeywordKind THEN Token(KeywordKind[w], 0, column, "")
    ELSE Token("Identifier", 0, column, w)

\* The width of the cells the lexemes of a one-line source are laid out in:
\* the longest lexeme (`continue`) and one blank.
LexemePitch == 9

\* The column of the i-th lexeme of a one-line source whose lexemes start
\* every LexemePitch bytes, padded with blanks.
WordColumn(i) == (i - 1) * LexemePitch

\* Lexer::scan on a one-line source given by its lexemes: the tokens, then Eof.
ScanWords(words) ==
    [i \in 1..(Len(words) + 1) |->
        IF i <= Len(words) THEN WordToken(words[i], WordColumn(i))
        ELSE Token("Eof", 0, WordColumn(i), "")]

\* lox_core::Error { line, column, source }
Error(line, column, source) == [line |-> line, column |-> column, source |-> source]
NoError == Error(0, 0, "None")

(***************************************************************************)
(* Lexer (lexer.rs).  The source is the sequence of its bytes, each a      *)
(* one-character string.  The lexer state l is the struct's fields         *)
(* [source, current, line, column, lexeme_start] with `panic`, set when    *)
(* next() is called at the end of the source (`expect("Unexpected EOF")`); *)
(* the Peekable iterator is `current`.  A scanning function returns        *)
(* [k, l, token, error]: k = "token" for Ok(Some(token)), "none" for       *)
(* Ok(None), "err" for Err(error).                                         *)
(***************************************************************************)
Digits == DOMAIN DigitValue
Letters ==
    {"a", "b", "c", "d", "e", "f", "g", "h", "i", "j", "k", "l", "m", "n",
     "o", "p", "q", "r", "s", "t", "u", "v", "w", "x", "y", "z",
     "A", "B", "C", "D", "E", "F", "G", "H", "I", "J", "K", "L", "M", "N",
     "O", "P", "Q", "R", "S", "T", "U", "V", "W", "X", "Y", "Z", "_"}

\* Lexer::new
Lexer_new(source) ==
    [source |-> source, current |-> 0, line |-> 0, column |-> 0,
     lexeme_start |-> 0, panic |-> FALSE]

\* Lexer::peek
Lexer_peek(l) ==
    IF l.current < Len(l.source) THEN Some(l.source[l.current + 1]) ELSE None

\* Lexer::double_peek
Lexer_double_peek(l) ==
    IF l.current + 1 < Len(l.source) THEN Some(l.source[l.current + 2]) ELSE None

\* Lexer::next: the state after the call; the byte it returns is the one
\* peek() showed before.
Lexer_next(l) ==
    [l EXCEPT !.current = @ + 1, !.column = @ + 1,
              !.panic = @ \/ l.current >= Len(l.source)]

\* Lexer::match_next
Lexer_match_next(l, expected) ==
    IF Lexer_peek(l) = Some(expected)
    THEN [matched |-> TRUE, l |-> Lexer_next(l)]
    ELSE [matched |-> FALSE, l |-> l]

NoToken == Token("None", 0, 0, "")
LToken(l, token) == [k |-> "token", l |-> l, token |-> token, error |-> NoError]
LNone(l) == [k |-> "none", l |-> l, token |-> NoToken, error |-> NoError]
LErr(l, error) == [k |-> "err", l |-> l, token |-> NoToken, error |-> error]

RECURSIVE Slice(_, _, _)
\* &self.source[from..to]
Slice(source, from, to) ==
    IF from >= to THEN "" ELSE source[from + 1] \o Slice(source, from + 1, to)

RECURSIVE next_while(_, _)
\* while let Some(byte of `bytes`) = self.peek() { self.next(); }
next_while(l, bytes) ==
    IF IsSome(Lexer_peek(l)) /\ Unwrap(Lexer_peek(l)) \in bytes
    THEN next_while(Lexer_next(l), bytes)
    ELSE l

\* Lexer::scan_line_comment
Lexer_scan_line_comment(l) ==
    LET l1 == next_while(l, {l.source[i] : i \in DOMAIN l.source} \ {"\n"})
    IN IF IsSome(Lexer_peek(l1))
       THEN [l1 EXCEPT !.column = 0, !.line = @ + 1]
       ELSE l1

\* Lexer::check_block_comment_boundary without the arm of `/*`.
Lexer_check_block_comment_boundary_flat(l) ==
    CASE Lexer_peek(l) = Some("*") /\ Lexer_double_peek(l) = Some("/") -> -1
      [] OTHER -> 0

\* Lexer::check_block_comment_boundary
Lexer_check_block_comment_boundary(l) ==
    CASE Lexer_peek(l) = Some("/") /\ Lexer_double_peek(l) = Some("*") -> 1
      [] Lexer_peek(l) = Some("*") /\ Lexer_double_peek(l) = Some("/") -> -1
      [] OTHER -> 0

RECURSIVE block_comment_loop(_, _)
\* The `while depth > 0` loop of Lexer::scan_block_comment.
block_comment_loop(l, depth) ==
    IF depth <= 0 \/ ~IsSome(Lexer_peek(l)) THEN l
    ELSE LET depth_change == Lexer_check_block_comment_boundary(l)
             l1 == Lexer_next(l)
         IN IF depth_change = 0
            THEN block_comment_loop(
                     IF Lexer_peek(l) = Some("\n")
                     THEN [l1 EXCEPT !.column = 0, !.line = @ + 1] ELSE l1,
                     depth)
            ELSE block_comment_loop(Lexer_next(l1), depth + depth_change)

\* Lexer::scan_block_comment
Lexer_scan_block_comment(l) == block_comment_loop(l, 1)

RECURSIVE string_literal_loop(_)
\* The `while let Some(c) = self.peek()` loop of Lexer::scan_string_literal.
string_literal_loop(l) ==
    IF ~IsSome(Lexer_peek(l)) \/ Lexer_peek(l) = Some("\"") THEN l
    ELSE string_literal_loop(
             Lexer_next(IF Lexer_peek(l) = Some("\n")
                        THEN [l EXCEPT !.line = @ + 1, !.column = 0] ELSE l))

\* Lexer::scan_string_literal
Lexer_scan_string_literal(l) ==
    LET line == l.line
        column == l.column - 1
        l1 == string_literal_loop(l)
        l2 == Lexer_next(l1)
    IN IF ~IsSome(Lexer_peek(l1))
       THEN LErr(l1, Error(line, column, "UnterminatedString"))
       ELSE LToken(l2, Token("String", line, column,
                             Slice(l.source, l.lexeme_start + 1, l2.current - 1)))

RECURSIVE DigitsValue(_, _, _, _)
\* The value of the decimal digits of source[from..to], `_` left out.
DigitsValue(source, from, to, value) ==
    IF from >= to THEN value
    ELSE DigitsValue(source, from + 1, to,
                     IF source[from + 1] = "_" THEN value
                     ELSE 10 * value + DigitValue[source[from + 1]])

RECURSIVE DigitsScale(_, _, _)
\* 10 to the number of digits of source[from..to], `_` left out.
DigitsScale(source, from, to) ==
    IF from >= to THEN 1
    ELSE (IF source[from + 1] = "_" THEN 1 ELSE 10) * DigitsScale(source, from + 1, to)

RECURSIVE GCD(_, _)
GCD(a, b) == IF b = 0 THEN a ELSE GCD(b, a % b)

\* str::parse::<f64> on the lexeme source[from..to] without its `_`, `dot`
\* being the end of its integer part.  The numbers of the model are the
\* integers; a value that is no integer is kept as the reduced fraction
\* that follows its integer part.
ParseF64(source, from, dot, to) ==
    LET whole == DigitsValue(source, from, dot, 0)
        numerator == DigitsValue(source, dot + 1, to, 0)
        scale == DigitsScale(source, dot + 1, to)
        divisor == GCD(numerator, scale)
    IN IF dot = to \/ numerator = 0 THEN whole
       ELSE [whole |-> whole, numerator |-> numerator \div divisor,
             denominator |-> scale \div divisor]

\* Lexer::scan_number_literal
Lexer_scan_number_literal(l) ==
    LET line == l.line
        column == l.column - 1
        l1 == next_while(l, Digits \cup {"_"})
        has_fractional_part ==
            /\ Lexer_peek(l1) = Some(".")
            /\ IsSome(Lexer_double_peek(l1))
            /\ Unwrap(Lexer_double_peek(l1)) \in Digits
        l2 == IF has_fractional_part
              THEN next_while(Lexer_next(l1), Digits \cup {"_"})
              ELSE l1
    IN LToken(l2, NumberToken(line, column,
                  Slice(l.source, l.lexeme_start, l2.current),
                  ParseF64(l.source, l.lexeme_start, l1.current, l2.current)))

\* Lexer::scan_identifier
Lexer_scan_identifier(l) ==
    LET line == l.line
        column == l.column - 1
        l1 == next_while(l, Letters \cup Digits)
        text == Slice(l.source, l.lexeme_start, l1.current)
    IN LToken(l1, IF text \in DOMAIN KeywordKind
                  THEN Token(KeywordKind[text], line, column, "")
                  ELSE Token("Identifier", line, column, text))

\* Lexer::scan_token
Lexer_scan_token(l) ==
    LET character == Unwrap(Lexer_peek(l))
        l1 == Lexer_next(l)
        equal == Lexer_match_next(l1, "=")
        slash == Lexer_match_next(l1, "/")
        star == Lexer_match_next(l1, "*")
    IN CASE character \in {"(", ")", "[", "]", "{", "}", ";", ",", ".", "-", "+",
                           "?", ":", "*"} ->
              LToken(l1, Token(PunctuationKind[character], l1.line, l1.column - 1, ""))
         [] character \in {"<", ">", "!", "="} ->
              LToken(equal.l,
                     Token(PunctuationKind[IF equal.matched THEN character \o "="
                                           ELSE character],
                           equal.l.line, equal.l.column - 1, ""))
         [] character = "/" ->
              IF slash.matched THEN LNone(Lexer_scan_line_comment(slash.l))
              ELSE IF star.matched THEN LNone(Lexer_scan_block_comment(star.l))
              ELSE LToken(l1, Token("Slash", l1.line, l1.column - 1, ""))
         [] character = "\"" -> Lexer_scan_string_literal(l1)
         [] character \in Digits -> Lexer_scan_number_literal(l1)
         [] character \in Letters -> Lexer_scan_identifier(l1)
         [] character \in {" ", "\t", "\r"} -> LNone(l1)
         [] character = "\n" -> LNone([l1 EXCEPT !.line = @ + 1, !.column = 0])
         [] OTHER -> LErr(l1, Error(l1.line, l1.column - 1, "UnexpectedCharacter"))

\* Lexer::new with the locals of Lexer::scan kept beside the lexer.
Lexer_scan_new(source) ==
    [l |-> Lexer_new(source), output |-> <<>>, has_error |-> FALSE]

\* An iteration of Lexer::scan that keeps the tokens pushed before an error.
Lexer_scan_iteration_keep(s) ==
    LET r == Lexer_scan_token([s.l EXCEPT !.lexeme_start = s.l.current])
    IN CASE r.k = "token" /\ ~s.has_error ->
              [reports |-> <<>>,
               s |-> [l |-> r.l, output |-> Append(s.output, r.token),
                      has_error |-> s.has_error]]
         [] r.k \in {"token", "none"} ->
              [reports |-> <<>>, s |-> [s EXCEPT !.l = r.l]]
         [] r.k = "err" ->
              [reports |-> <<r.error>>,
               s |-> [l |-> r.l, output |-> s.output, has_error |-> TRUE]]

\* One iteration of the `while self.peek().is_some()` loop of Lexer::scan on
\* [l, output, has_error]; the result adds the diagnostic the iteration
\* reports, if any.
Lexer_scan_iteration(s) ==
    LET r == Lexer_scan_token([s.l EXCEPT !.lexeme_start = s.l.current])
    IN CASE r.k = "token" /\ ~s.has_error ->
              [reports |-> <<>>,
               s |-> [l |-> r.l, output |-> Append(s.output, r.token),
                      has_error |-> s.has_error]]
         [] r.k \in {"token", "none"} ->
              [reports |-> <<>>, s |-> [s EXCEPT !.l = r.l]]
         [] r.k = "err" ->
              [reports |-> <<r.error>>,
               s |-> [l |-> r.l, output |-> <<>>, has_error |-> TRUE]]

\* Lexer::scan after its loop: the output with the Eof token.
Lexer_scan_output(s) ==
    Append(s.output, Token("Eof", s.l.line, s.l.column, ""))

(***************************************************************************)
(* Parser (parser.rs).  The parser state p is [current, reported]:         *)
(* `current` is Parser::current (0-based; tokens[current] of the source is *)
(* toks[current + 1] here) and `reported` counts the diagnostics sent to   *)
(* report() without being returned.  Every parsing function returns        *)
(* [ok, panic, p, node, error]: ok with the node, or the Err(error) it     *)
(* returns, or panic when the source indexes outside the token list.       *)
(***************************************************************************)
MAX_NUMBER_OF_ARGUMENTS == 255

NoNode == [e |-> "None"]

Ok(p, node) == [ok |-> TRUE, panic |-> FALSE, p |-> p, node |-> node, error |-> NoError]
Err(p, error) == [ok |-> FALSE, panic |-> FALSE, p |-> p, node |-> NoNode, error |-> error]
Panic(p) == [ok |-> FALSE, panic |-> TRUE, p |-> p, node |-> NoNode, error |-> NoError]

\* Parser::peek
Parser_peek(toks, p) == toks[p.current + 1]

\* Parser::is_done
Parser_is_done(toks, p) == Parser_peek(toks, p).kind = "Eof"

\* Parser::previous indexes tokens[current - 1]: it panics when current = 0.
PreviousPanics(p) == p.current = 0
Parser_previous(toks, p) == toks[p.current]

\* Parser::next: the cursor after the call (it stays on Eof).
Parser_next(toks, p) ==
    IF Parser_is_done(toks, p) THEN p ELSE [p EXCEPT !.current = @ + 1]

\* match_token!(peek: self, kinds)
PeekIs(toks, p, kinds) == Parser_peek(toks, p).kind \in kinds

\* error!(self, source): an Err positioned after the previous token.
error_macro(toks, p, source) ==
    IF PreviousPanics(p) THEN Panic(p)
    ELSE LET token == Parser_previous(toks, p)
         IN Err(p, Error(token.line, token.column + TokenKind_len(token), source))

\* The saturating subtraction of the missing-operand diagnostic.
SaturatingSub(a, b) == IF a >= b THEN a - b ELSE 0

\* AST constructors (expression.rs, statement.rs, operator/*.rs).
Reference(line, column, identifier) ==
    [line |-> line, column |-> column, identifier |-> identifier]
Operator(token, kind) == [line |-> token.line, column |-> token.column, kind |-> kind]

BinaryOperatorKind ==
    [Comma |-> "Comma", BangEqual |-> "BangEqual", DoubleEquals |-> "DoubleEquals",
     LessThan |-> "LessThan", LessEqual |-> "LessEqual",
     GreaterEqual |-> "GreaterEqual", GreaterThan |-> "GreaterThan",
     Plus |-> "Plus", Minus |-> "Minus", Star |-> "Star", Slash |-> "Slash"]

\* The calls `self.method(...)` of the Parser's methods on one another.
RECURSIVE ParserCall(_, _)
RECURSIVE Parser_assignment(_, _), Parser_ternary(_, _), Parser_unary(_, _),
          Parser_call(_, _), Parser_primary(_, _)
parser_declaration(a, b) == ParserCall("declaration", <<a, b>>)
parser_var_declaration(a, b) == ParserCall("var_declaration", <<a, b>>)
parser_class_declaration(a, b) == ParserCall("class_declaration", <<a, b>>)
parser_methods(a, b, c) == ParserCall("methods", <<a, b, c>>)
parser_named_function(a, b, c) == ParserCall("named_function", <<a, b, c>>)
parser_anonymous_function(a, b) == ParserCall("anonymous_function", <<a, b>>)
parser_parameters(a, b) == ParserCall("parameters", <<a, b>>)
parser_statement(a, b) == ParserCall("statement", <<a, b>>)
parser_if_statement(a, b) == ParserCall("if_statement", <<a, b>>)
parser_while_statement(a, b) == ParserCall("while_statement", <<a, b>>)
parser_for_statement(a, b) == ParserCall("for_statement", <<a, b>>)
parser_return_statement(a, b) == ParserCall("return_statement", <<a, b>>)
parser_block(a, b, c) == ParserCall("block", <<a, b, c>>)
parser_expression_statement(a, b) == ParserCall("expression_statement", <<a, b>>)
parser_expression(a, b) == ParserCall("expression", <<a, b>>)
parser_assignment(a, b) == ParserCall("assignment", <<a, b>>)
parser_ternary(a, b) == ParserCall("ternary", <<a, b>>)
parser_or(a, b) == ParserCall("or", <<a, b>>)
parser_and(a, b) == ParserCall("and", <<a, b>>)
parser_comma(a, b) == ParserCall("comma", <<a, b>>)
parser_equality(a, b) == ParserCall("equality", <<a, b>>)
parser_comparison(a, b) == ParserCall("comparison", <<a, b>>)
parser_term(a, b) == ParserCall("term", <<a, b>>)
parser_factor(a, b) == ParserCall("factor", <<a, b>>)
parser_unary(a, b) == ParserCall("unary", <<a, b>>)
parser_call(a, b) == ParserCall("call", <<a, b>>)
parser_call_loop(a, b, c) == ParserCall("call_loop", <<a, b, c>>)
parser_arguments(a, b) == ParserCall("arguments", <<a, b>>)
parser_primary(a, b) == ParserCall("primary", <<a, b>>)
parser_binary_loop(a, b, c, d, e) == ParserCall("binary_loop", <<a, b, c, d, e>>)
parser_logical_loop(a, b, c, d, e) == ParserCall("logical_loop", <<a, b, c, d, e>>)

\* The level below each level of the precedence ladder ($next of the macros).
NextLevel(step, toks, p) ==
    CASE step = "or" -> parser_and(toks, p)
      [] step = "and" -> parser_equality(toks, p)
      [] step = "comma" -> parser_assignment(toks, p)
      [] step = "equality" -> parser_comparison(toks, p)
      [] step = "comparison" -> parser_term(toks, p)
      [] step = "term" -> parser_factor(toks, p)
      [] step = "factor" -> parser_unary(toks, p)

\* The operators of each level ($operator of the macros).
LevelKinds(step) ==
    CASE step = "or" -> {"Or"}
      [] step = "and" -> {"And"}
      [] step = "comma" -> {"Comma"}
      [] step = "equality" -> {"BangEqual", "DoubleEquals"}
      [] step = "comparison" -> {"LessThan", "LessEqual", "GreaterEqual", "GreaterThan"}
      [] step = "term" -> {"Plus", "Minus"}
      [] step = "factor" -> {"Star", "Slash"}

\* The missing-operand check of binary_operators! and logical_operators!:
\* the level's own operator is consumed and ExpectedExpression returned.
MissingOperand(toks, p) ==
    LET p1 == Parser_next(toks, p)
        token == Parser_previous(toks, p1)
    IN Err(p1, Error(token.line, SaturatingSub(token.column, TokenKind_len(token)),
                     "ExpectedExpression"))

\* The `while match_token!` loop of binary_operators!.
Parser_binary_loop(step, kinds, toks, p, expression) ==
    IF ~PeekIs(toks, p, kinds) THEN Ok(p, expression)
    ELSE LET p1 == Parser_next(toks, p)
             token == Parser_previous(toks, p1)
             right == NextLevel(step, toks, p1)
         IN IF ~right.ok THEN right
            ELSE parser_binary_loop(step, kinds, toks, right.p,
                     [e |-> "Binary", left |-> expression, right |-> right.node,
                      operator |-> Operator(token, BinaryOperatorKind[token.kind])])

\* The `while match_token!` loop of logical_operators!.
Parser_logical_loop(step, kinds, toks, p, expression) ==
    IF ~PeekIs(toks, p, kinds) THEN Ok(p, expression)
    ELSE LET p1 == Parser_next(toks, p)
             token == Parser_previous(toks, p1)
             right == NextLevel(step, toks, p1)
         IN IF ~right.ok THEN right
            ELSE parser_logical_loop(step, kinds, toks, right.p,
                     [e |-> "Logical", left |-> expression, right |-> right.node,
                      operator |-> Operator(token, token.kind)])

\* The levels logical_operators! and binary_operators! generate below
\* ternary, outermost first: each calls the next one, `factor` calls unary.
Levels == <<"or", "and", "equality", "comparison", "term", "factor">>

\* The `while match_token!` loop of a level.
level_loop(step, toks, p, expression) ==
    IF step \in {"or", "and"}
    THEN parser_logical_loop(step, LevelKinds(step), toks, p, expression)
    ELSE parser_binary_loop(step, LevelKinds(step), toks, p, expression)

\* The loops of the levels j, j - 1, ..., i, run on the way back up from
\* unary: the result of the level below is the left operand of a level's
\* loop, and an Err is passed up by the `?` of every level.
RECURSIVE level_loops(_, _, _, _)
level_loops(i, j, toks, left) ==
    IF j < i \/ ~left.ok THEN left
    ELSE level_loops(i, j - 1, toks, level_loop(Levels[j], toks, left.p, left.node))

\* The function generated for level i.  On the way down every level from i
\* to `factor` checks the token at p for its own operators (the missing
\* operand) before it calls the level below, and nothing is consumed until
\* unary is called; on the way up every level runs its loop.
generated_level(i, toks, p) ==
    IF \E j \in i..Len(Levels) : PeekIs(toks, p, LevelKinds(Levels[j]))
    THEN MissingOperand(toks, p)
    ELSE level_loops(i, Len(Levels), toks, Parser_unary(toks, p))

Parser_factor(toks, p) == generated_level(6, toks, p)

Parser_term(toks, p) == generated_level(5, toks, p)

Parser_comparison(toks, p) == generated_level(4, toks, p)

Parser_equality(toks, p) == generated_level(3, toks, p)

Parser_and(toks, p) == generated_level(2, toks, p)

Parser_or(toks, p) == generated_level(1, toks, p)

\* The function binary_operators! generates for `comma`: the
\* missing-operand check, the left operand `left` parsed by assignment at p,
\* then the loop.
binary_operators(step, toks, p, left) ==
    CASE PeekIs(toks, p, LevelKinds(step)) -> MissingOperand(toks, p)
      [] left.ok -> parser_binary_loop(step, LevelKinds(step), toks, left.p, left.node)
      [] OTHER -> left

Parser_comma(toks, p) == binary_operators("comma", toks, p, Parser_assignment(toks, p))

\* Parser::expression
Parser_expression(toks, p) == Parser_comma(toks, p)

\* Parser::assignment, after `let expression = self.ternary()?`.
assignment_target(toks, expression) ==
    IF ~expression.ok THEN expression
    ELSE IF ~PeekIs(toks, expression.p, {"Equals"}) THEN expression
    ELSE LET value == parser_assignment(toks, Parser_next(toks, expression.p))
         IN IF ~value.ok THEN value
            ELSE IF expression.node.e = "Variable"
            THEN Ok(value.p, [e |-> "Assignment",
                              reference |-> expression.node.reference,
                              value |-> value.node])
            ELSE IF expression.node.e = "Get"
            THEN Ok(value.p, [e |-> "Set", line |-> expression.node.line,
                              column |-> expression.node.column,
                              object |-> expression.node.object,
                              identifier |-> expression.node.identifier,
                              value |-> value.node])
            ELSE error_macro(toks, value.p, "InvalidAssignmentTarget")

\* Parser::assignment
Parser_assignment(toks, p) == assignment_target(toks, Parser_ternary(toks, p))

\* Parser::ternary, after `let mut expression = self.or()?`.
ternary_branches(toks, expression) ==
    IF ~expression.ok THEN expression
    ELSE IF ~PeekIs(toks, expression.p, {"QuestionMark"}) THEN expression
    ELSE LET truthy == parser_ternary(toks, Parser_next(toks, expression.p))
         IN IF ~truthy.ok THEN truthy
            ELSE IF ~PeekIs(toks, truthy.p, {"Colon"})
            THEN error_macro(toks, truthy.p, "UnterminatedTernary")
            ELSE LET falsey == parser_ternary(toks, Parser_next(toks, truthy.p))
                 IN IF ~falsey.ok THEN falsey
                    ELSE Ok(falsey.p, [e |-> "Ternary",
                                       condition |-> expression.node,
                                       truthy |-> truthy.node,
                                       falsey |-> falsey.node])

\* Parser::ternary
Parser_ternary(toks, p) ==
    IF PeekIs(toks, p, {"QuestionMark"})
    THEN error_macro(toks, Parser_next(toks, p), "ExpectedExpression")
    ELSE ternary_branches(toks, Parser_or(toks, p))

\* Parser::unary
Parser_unary(toks, p) ==
    IF ~PeekIs(toks, p, {"Bang", "Minus"}) THEN Parser_call(toks, p)
    ELSE LET p1 == Parser_next(toks, p)
             operator == Parser_previous(toks, p1)
             expression == parser_unary(toks, p1)
         IN IF ~expression.ok THEN expression
            ELSE Ok(expression.p, [e |-> "Unary", expression |-> expression.node,
                                   operator |-> Operator(operator, operator.kind)])

\* The `loop` of Parser::call after the primary expression.
Parser_call_loop(toks, p, expression) ==
    IF PeekIs(toks, p, {"LeftParen"})
    THEN LET p1 == Parser_next(toks, p)
             token == Parser_previous(toks, p1)
             args == parser_arguments(toks, p1)
         IN IF ~args.ok THEN args
            ELSE IF ~PeekIs(toks, args.p, {"RightParen"})
            THEN error_macro(toks, args.p, "ExpectedRightParen")
            ELSE parser_call_loop(toks, Parser_next(toks, args.p),
                     [e |-> "Call", line |-> token.line, column |-> token.column,
                      callee |-> expression, args |-> args.node])
    ELSE IF PeekIs(toks, p, {"Dot"})
    THEN LET p1 == Parser_next(toks, p)
         IN IF ~PeekIs(toks, p1, {"Identifier"})
            THEN error_macro(toks, p1, "ExpectedIdentifier")
            ELSE LET token == Parser_peek(toks, p1)
                 IN parser_call_loop(toks, Parser_next(toks, p1),
                        [e |-> "Get", line |-> token.line, column |-> token.column,
                         object |-> expression, identifier |-> token.text])
    ELSE Ok(p, expression)

\* Parser::call, after `let mut expression = self.primary()?`.
call_loop_from(toks, expression) ==
    IF ~expression.ok THEN expression
    ELSE parser_call_loop(toks, expression.p, expression.node)

\* Parser::call
Parser_call(toks, p) ==
    call_loop_from(toks, Parser_primary(toks, p))

\* The loop state is [more, r]: more while the loop has not left, r the
\* result so far.  n iterations of a loop body, split in two halves so that
\* a long run nests shallowly.
RECURSIVE Iterate(_, _, _, _)
Iterate(Body(_, _), toks, n, st) ==
    IF ~st.more THEN st
    ELSE IF n <= 1 THEN Body(toks, st)
    ELSE Iterate(Body, toks, n - (n \div 2), Iterate(Body, toks, n \div 2, st))

\* A `loop` run until it is left: n iterations, then 2n, then 4n, ...
RECURSIVE Loop(_, _, _, _)
Loop(Body(_, _), toks, n, st) ==
    IF ~st.more THEN st
    ELSE Loop(Body, toks, 2 * n, Iterate(Body, toks, n, st))

Looping(r) == [more |-> TRUE, r |-> r]
Left(r) == [more |-> FALSE, r |-> r]

\* One iteration of the `loop` of Parser::arguments; st.r.node is the vector
\* args built so far.
arguments_iteration(toks, st) ==
    LET p == st.r.p
        args == st.r.node
    IN IF PeekIs(toks, p, {"RightParen"}) THEN Left(st.r)
       ELSE LET p1 == IF Len(args) = MAX_NUMBER_OF_ARGUMENTS
                      THEN [p EXCEPT !.reported = @ + 1] ELSE p
                arg == parser_assignment(toks, p1)
            IN IF ~arg.ok THEN Left(arg)
               ELSE IF ~PeekIs(toks, arg.p, {"Comma"})
               THEN Left(Ok(arg.p, Append(args, arg.node)))
               ELSE Looping(Ok(Parser_next(toks, arg.p), Append(args, arg.node)))

\* Parser::arguments: every iteration consumes a token, so Len(toks)
\* iterations run the loop to its end.
Parser_arguments(toks, p) ==
    Loop(arguments_iteration, toks, 1, Looping(Ok(p, <<>>))).r

\* One iteration of the `loop` of Parser::parameters; st.r.node is the vector
\* parameters built so far.
parameters_iteration(toks, st) ==
    LET p == st.r.p
        parameters == st.r.node
    IN IF PeekIs(toks, p, {"RightParen"}) THEN Left(st.r)
       ELSE LET p1 == IF Len(parameters) = MAX_NUMBER_OF_ARGUMENTS
                      THEN [p EXCEPT !.reported = @ + 1] ELSE p
            IN IF ~PeekIs(toks, p1, {"Identifier"})
               THEN Left(error_macro(toks, p1, "ExpectedIdentifier"))
               ELSE LET ident == Parser_peek(toks, p1).text
                        p2 == Parser_next(toks, p1)
                    IN IF ~PeekIs(toks, p2, {"Comma"})
                       THEN Left(Ok(p2, Append(parameters, ident)))
                       ELSE Looping(Ok(Parser_next(toks, p2),
                                       Append(parameters, ident)))

\* Parser::parameters
Parser_parameters(toks, p) ==
    Loop(parameters_iteration, toks, 1, Looping(Ok(p, <<>>))).r

\* An Rc<[Statement]>: the allocation (named by the cursor at which the
\* parser made it) and the statements it holds.  Clones share the allocation.
Rc(ptr, statements) == [ptr |-> ptr, statements |-> statements]

\* Parser::anonymous_function
Parser_anonymous_function(toks, p) ==
    IF ~PeekIs(toks, p, {"LeftParen"}) THEN error_macro(toks, p, "ExpectedLeftParen")
    ELSE LET parameters == parser_parameters(toks, Parser_next(toks, p))
         IN IF ~parameters.ok THEN parameters
            ELSE IF ~PeekIs(toks, parameters.p, {"RightParen"})
            THEN error_macro(toks, parameters.p, "ExpectedRightParen")
            ELSE LET p1 == Parser_next(toks, parameters.p)
                 IN IF ~PeekIs(toks, p1, {"LeftCurly"})
                    THEN error_macro(toks, p1, "ExpectedLeftCurly")
                    ELSE LET block == parser_block(toks, Parser_next(toks, p1), <<>>)
                         IN IF ~block.ok THEN block
                            ELSE Ok(block.p, [e |-> "AnonymousFunction",
                                              parameters |-> parameters.node,
                                              body |-> Rc(p1.current + 1,
                                                          block.node.statements)])

\* Parser::primary
Parser_primary(toks, p) ==
    LET token == Parser_peek(toks, p)
        p1 == Parser_next(toks, p)
    IN CASE token.kind = "Identifier" ->
              Ok(p1, [e |-> "Variable",
                      reference |-> Reference(token.line, token.column, token.text)])
         [] token.kind = "This" ->
              Ok(p1, [e |-> "This", line |-> token.line, column |-> token.column])
         [] token.kind = "Super" ->
              IF ~PeekIs(toks, p1, {"Dot"})
              THEN error_macro(toks, p1, "ExpectedDotAfterSuper")
              ELSE LET p2 == Parser_next(toks, p1)
                   IN IF ~PeekIs(toks, p2, {"Identifier"})
                      THEN error_macro(toks, p2, "ExpectedIdentifier")
                      ELSE Ok(Parser_next(toks, p2),
                              [e |-> "Super", line |-> token.line,
                               column |-> token.column,
                               method |-> Parser_peek(toks, p2).text])
         [] token.kind = "True" ->
              Ok(p1, [e |-> "Literal", literal |-> [t |-> "Boolean", b |-> TRUE]])
         [] token.kind = "False" ->
              Ok(p1, [e |-> "Literal", literal |-> [t |-> "Boolean", b |-> FALSE]])
         [] token.kind = "Nil" ->
              Ok(p1, [e |-> "Literal", literal |-> [t |-> "Nil"]])
         [] token.kind = "Number" ->
              Ok(p1, [e |-> "Literal",
                      literal |-> [t |-> "Number", n |-> token.value]])
         [] token.kind = "String" ->
              Ok(p1, [e |-> "Literal", literal |-> [t |-> "String", s |-> token.text]])
         [] token.kind = "LeftParen" ->
              LET expression == parser_expression(toks, p1)
              IN IF ~expression.ok THEN expression
                 ELSE IF ~PeekIs(toks, expression.p, {"RightParen"})
                 THEN error_macro(toks, expression.p, "ExpectedRightParen")
                 ELSE Ok(Parser_next(toks, expression.p),
                         [e |-> "GroupingExpression", expression |-> expression.node])
         [] token.kind = "Fun" -> parser_anonymous_function(toks, p1)
         [] OTHER -> error_macro(toks, p, "ExpectedExpression")

\* Parser::expression_statement, after `let expression = self.expression()?`.
expression_statement_end(toks, expression) ==
    IF ~expression.ok THEN expression
    ELSE IF ~PeekIs(toks, expression.p, {"Semicolon"})
    THEN error_macro(toks, expression.p, "ExpectedSemicolon")
    ELSE Ok(Parser_next(toks, expression.p),
            [s |-> "Expression", expression |-> expression.node])

\* Parser::expression_statement
Parser_expression_statement(toks, p) ==
    expression_statement_end(toks, Parser_expression(toks, p))

\* Parser::block; statements is the vector built so far.
Parser_block(toks, p, statements) ==
    IF ~PeekIs(toks, p, {"RightCurly", "Eof"})
    THEN LET declaration == parser_declaration(toks, p)
         IN IF ~declaration.ok THEN declaration
            ELSE parser_block(toks, declaration.p, Append(statements, declaration.node))
    ELSE IF ~PeekIs(toks, p, {"RightCurly"})
    THEN error_macro(toks, p, "ExpectedRightCurly")
    ELSE Ok(Parser_next(toks, p), [s |-> "Block", statements |-> statements])

\* Parser::var_declaration, entered after `var` was consumed.
Parser_var_declaration(toks, p) ==
    IF PreviousPanics(p) THEN Panic(p)
    ELSE
    LET var == Parser_previous(toks, p)
    IN IF ~PeekIs(toks, p, {"Identifier"}) THEN error_macro(toks, p, "ExpectedIdentifier")
       ELSE LET p1 == Parser_next(toks, p)
                identifier == Parser_previous(toks, p1)
                initializer ==
                    CASE PeekIs(toks, p1, {"Equals"}) ->
                           LET expression == parser_expression(toks, Parser_next(toks, p1))
                           IN IF ~expression.ok THEN expression
                              ELSE Ok(expression.p, Some(expression.node))
                      [] PeekIs(toks, p1, {"Semicolon"}) -> Ok(p1, None)
                      [] OTHER ->
                           Err(p1, Error(identifier.line,
                                         identifier.line + TokenKind_len(identifier),
                                         "ExpectedSemicolonOrInitializer"))
            IN IF ~initializer.ok THEN initializer
               ELSE IF ~PeekIs(toks, initializer.p, {"Semicolon"})
               THEN error_macro(toks, initializer.p, "ExpectedSemicolon")
               ELSE Ok(Parser_next(toks, initializer.p),
                       [s |-> "Declaration", line |-> var.line, column |-> var.column,
                        identifier |-> identifier.text,
                        initializer |-> initializer.node])

\* Parser::named_function
Parser_named_function(toks, p, is_method) ==
    IF ~is_method /\ PreviousPanics(p) THEN Panic(p)
    ELSE
    LET token == IF is_method THEN Parser_peek(toks, p) ELSE Parser_previous(toks, p)
    IN IF ~PeekIs(toks, p, {"Identifier"}) THEN error_macro(toks, p, "ExpectedIdentifier")
       ELSE LET identifier == Parser_peek(toks, p).text
                function == parser_anonymous_function(toks, Parser_next(toks, p))
            IN IF ~function.ok THEN function
               ELSE Ok(function.p,
                       [s |-> "Function", line |-> token.line, column |-> token.column,
                        identifier |-> identifier,
                        parameters |-> function.node.parameters,
                        body |-> function.node.body])

\* The method loop of Parser::class_declaration.
Parser_methods(toks, p, methods) ==
    IF ~Parser_is_done(toks, p) /\ ~PeekIs(toks, p, {"RightCurly"})
    THEN LET method == parser_named_function(toks, p, TRUE)
         IN IF ~method.ok THEN method
            ELSE parser_methods(toks, method.p, Append(methods, method.node))
    ELSE Ok(p, methods)

\* Parser::class_declaration, entered after `class` was consumed.
Parser_class_declaration(toks, p) ==
    IF PreviousPanics(p) THEN Panic(p)
    ELSE
    LET token == Parser_previous(toks, p)
    IN IF ~PeekIs(toks, p, {"Identifier"}) THEN error_macro(toks, p, "ExpectedIdentifier")
       ELSE
       LET identifier == Parser_peek(toks, p).text
           p1 == Parser_next(toks, p)
           super_class ==
               IF ~PeekIs(toks, p1, {"LessThan"}) THEN Ok(p1, None)
               ELSE LET p2 == Parser_next(toks, p1)
                    IN IF ~PeekIs(toks, p2, {"Identifier"})
                       THEN error_macro(toks, p2, "ExpectedIdentifier")
                       ELSE LET super_token == Parser_peek(toks, p2)
                            IN Ok(Parser_next(toks, p2),
                                  Some([e |-> "Variable",
                                        reference |-> Reference(super_token.line,
                                            super_token.column, super_token.text)]))
       IN IF ~super_class.ok THEN super_class
          ELSE IF ~PeekIs(toks, super_class.p, {"LeftCurly"})
          THEN error_macro(toks, super_class.p, "ExpectedLeftCurly")
          ELSE LET methods == parser_methods(toks, Parser_next(toks, super_class.p), <<>>)
               IN IF ~methods.ok THEN methods
                  ELSE IF ~PeekIs(toks, methods.p, {"RightCurly"})
                  THEN error_macro(toks, methods.p, "ExpectedRightCurly")
                  ELSE Ok(Parser_next(toks, methods.p),
                          [s |-> "Class", line |-> token.line, column |-> token.column,
                           identifier |-> identifier,
                           super_class |-> super_class.node,
                           methods |-> methods.node])

\* Parser::if_statement, entered after `if` was consumed.
Parser_if_statement(toks, p) ==
    IF ~PeekIs(toks, p, {"LeftParen"}) THEN error_macro(toks, p, "ExpectedLeftParen")
    ELSE LET condition == parser_expression(toks, Parser_next(toks, p))
         IN IF ~condition.ok THEN condition
            ELSE IF ~PeekIs(toks, condition.p, {"RightParen"})
            THEN error_macro(toks, condition.p, "ExpectedRightParen")
            ELSE LET then_branch == parser_statement(toks, Parser_next(toks, condition.p))
                 IN IF ~then_branch.ok THEN then_branch
                    ELSE IF ~PeekIs(toks, then_branch.p, {"Else"})
                    THEN Ok(then_branch.p,
                            [s |-> "If", condition |-> condition.node,
                             then_branch |-> then_branch.node, else_branch |-> None])
                    ELSE LET else_branch ==
                                 parser_statement(toks, Parser_next(toks, then_branch.p))
                         IN IF ~else_branch.ok THEN else_branch
                            ELSE Ok(else_branch.p,
                                    [s |-> "If", condition |-> condition.node,
                                     then_branch |-> then_branch.node,
                                     else_branch |-> Some(else_branch.node)])

\* Parser::while_statement, entered after `while` was consumed.
Parser_while_statement(toks, p) ==
    IF ~PeekIs(toks, p, {"LeftParen"}) THEN error_macro(toks, p, "ExpectedLeftParen")
    ELSE LET condition == parser_expression(toks, Parser_next(toks, p))
         IN IF ~condition.ok THEN condition
            ELSE IF ~PeekIs(toks, condition.p, {"RightParen"})
            THEN error_macro(toks, condition.p, "ExpectedRightParen")
            ELSE LET body == parser_statement(toks, Parser_next(toks, condition.p))
                 IN IF ~body.ok THEN body
                    ELSE Ok(body.p, [s |-> "While", condition |-> condition.node,
                                     body |-> body.node])

\* The desugaring at the end of Parser::for_statement.
ForDesugar(initializer, condition, increment, body) ==
    LET stmt1 == IF IsSome(increment)
                 THEN [s |-> "Block",
                       statements |-> <<body, [s |-> "Expression",
                                               expression |-> Unwrap(increment)]>>]
                 ELSE body
        stmt2 == [s |-> "While", condition |-> condition, body |-> stmt1]
    IN IF IsSome(initializer)
       THEN [s |-> "Block", statements |-> <<Unwrap(initializer), stmt2>>]
       ELSE stmt2

\* Parser::for_statement, from its body on: p is past the `)`.
for_statement_body(toks, p, initializer, condition, increment) ==
    LET body == parser_statement(toks, p)
    IN IF ~body.ok THEN body
       ELSE Ok(body.p, ForDesugar(initializer, condition, increment, body.node))

\* Parser::for_statement, from its increment on: p is past the second `;`.
for_statement_increment(toks, p, initializer, condition) ==
    IF PeekIs(toks, p, {"RightParen"})
    THEN for_statement_body(toks, Parser_next(toks, p), initializer, condition, None)
    ELSE LET r == parser_expression(toks, p)
         IN IF ~r.ok THEN r
            ELSE IF ~PeekIs(toks, r.p, {"RightParen"})
            THEN error_macro(toks, r.p, "ExpectedRightParen")
            ELSE for_statement_body(toks, Parser_next(toks, r.p), initializer,
                                    condition, Some(r.node))

\* Parser::for_statement, from its condition on: p is past the initializer.
for_statement_condition(toks, p, initializer) ==
    IF PeekIs(toks, p, {"Semicolon"})
    THEN for_statement_increment(toks, Parser_next(toks, p), initializer,
             [e |-> "Literal", literal |-> [t |-> "Boolean", b |-> TRUE]])
    ELSE LET r == parser_expression(toks, p)
         IN IF ~r.ok THEN r
            ELSE IF ~PeekIs(toks, r.p, {"Semicolon"})
            THEN error_macro(toks, r.p, "ExpectedSemicolon")
            ELSE for_statement_increment(toks, Parser_next(toks, r.p), initializer,
                                         r.node)

\* Parser::for_statement, entered after `for` was consumed.
Parser_for_statement(toks, p) ==
    IF ~PeekIs(toks, p, {"LeftParen"}) THEN error_macro(toks, p, "ExpectedLeftParen")
    ELSE IF PeekIs(toks, Parser_next(toks, p), {"Semicolon"})
    THEN for_statement_condition(toks, Parser_next(toks, Parser_next(toks, p)), None)
    ELSE LET r == IF PeekIs(toks, Parser_next(toks, p), {"Var"})
                  THEN parser_var_declaration(toks,
                           Parser_next(toks, Parser_next(toks, p)))
                  ELSE parser_expression_statement(toks, Parser_next(toks, p))
         IN IF ~r.ok THEN r
            ELSE for_statement_condition(toks, r.p, Some(r.node))

\* Parser::break_statement and Parser::continue_statement, entered after the
\* keyword was consumed; kind is "Break" or "Continue".
Parser_break_statement(toks, p, kind) ==
    LET token == Parser_previous(toks, p)
    IN IF ~PeekIs(toks, p, {"Semicolon"}) THEN error_macro(toks, p, "ExpectedSemicolon")
       ELSE Ok(Parser_next(toks, p),
               [s |-> kind, line |-> token.line, column |-> token.column])

\* Parser::return_statement, entered after `return` was consumed.
Parser_return_statement(toks, p) ==
    LET token == Parser_previous(toks, p)
    IN IF PeekIs(toks, p, {"Semicolon"})
       THEN Ok(Parser_next(toks, p),
               [s |-> "Return", line |-> token.line, column |-> token.column,
                expression |-> None])
       ELSE LET expression == parser_expression(toks, p)
            IN IF ~expression.ok THEN expression
               ELSE IF ~PeekIs(toks, expression.p, {"Semicolon"})
               THEN error_macro(toks, expression.p, "ExpectedSemicolon")
               ELSE Ok(Parser_next(toks, expression.p),
                       [s |-> "Return", line |-> token.line, column |-> token.column,
                        expression |-> Some(expression.node)])

\* Parser::statement
Parser_statement(toks, p) ==
    LET kind == Parser_peek(toks, p).kind
        p1 == Parser_next(toks, p)
    IN CASE kind = "LeftCurly" -> Parser_block(toks, p1, <<>>)
         [] kind = "If" -> Parser_if_statement(toks, p1)
         [] kind = "While" -> Parser_while_statement(toks, p1)
         [] kind = "For" -> Parser_for_statement(toks, p1)
         [] kind = "Break" -> Parser_break_statement(toks, p1, "Break")
         [] kind = "Continue" -> Parser_break_statement(toks, p1, "Continue")
         [] kind = "Return" -> Parser_return_statement(toks, p1)
         [] OTHER -> Parser_expression_statement(toks, p)

\* Parser::declaration
Parser_declaration(toks, p) ==
    LET kind == Parser_peek(toks, p).kind
        p1 == Parser_next(toks, p)
    IN CASE kind = "Var" -> Parser_var_declaration(toks, p1)
         [] kind = "Fun" -> Parser_named_function(toks, p1, FALSE)
         [] kind = "Class" -> Parser_class_declaration(toks, p1)
         [] OTHER -> Parser_statement(toks, p)

\* A call of a method of the Parser: `method` names it, `a` holds its arguments.
ParserCall(method, a) ==
    CASE method = "declaration" -> Parser_declaration(a[1], a[2])
      [] method = "var_declaration" -> Parser_var_declaration(a[1], a[2])
      [] method = "class_declaration" -> Parser_class_declaration(a[1], a[2])
      [] method = "methods" -> Parser_methods(a[1], a[2], a[3])
      [] method = "named_function" -> Parser_named_function(a[1], a[2], a[3])
      [] method = "anonymous_function" -> Parser_anonymous_function(a[1], a[2])
      [] method = "parameters" -> Parser_parameters(a[1], a[2])
      [] method = "statement" -> Parser_statement(a[1], a[2])
      [] method = "if_statement" -> Parser_if_statement(a[1], a[2])
      [] method = "while_statement" -> Parser_while_statement(a[1], a[2])
      [] method = "for_statement" -> Parser_for_statement(a[1], a[2])
      [] method = "return_statement" -> Parser_return_statement(a[1], a[2])
      [] method = "block" -> Parser_block(a[1], a[2], a[3])
      [] method = "expression_statement" -> Parser_expression_statement(a[1], a[2])
      [] method = "expression" -> Parser_expression(a[1], a[2])
      [] method = "assignment" -> Parser_assignment(a[1], a[2])
      [] method = "ternary" -> Parser_ternary(a[1], a[2])
      [] method = "or" -> Parser_or(a[1], a[2])
      [] method = "and" -> Parser_and(a[1], a[2])
      [] method = "comma" -> Parser_comma(a[1], a[2])
      [] method = "equality" -> Parser_equality(a[1], a[2])
      [] method = "comparison" -> Parser_comparison(a[1], a[2])
      [] method = "term" -> Parser_term(a[1], a[2])
      [] method = "factor" -> Parser_factor(a[1], a[2])
      [] method = "unary" -> Parser_unary(a[1], a[2])
      [] method = "call" -> Parser_call(a[1], a[2])
      [] method = "call_loop" -> Parser_call_loop(a[1], a[2], a[3])
      [] method = "arguments" -> Parser_arguments(a[1], a[2])
      [] method = "primary" -> Parser_primary(a[1], a[2])
      [] method = "binary_loop" -> Parser_binary_loop(a[1], a[2], a[3], a[4], a[5])
      [] method = "logical_loop" -> Parser_logical_loop(a[1], a[2], a[3], a[4], a[5])

RECURSIVE Parser_sinchronyze_loop(_, _)
\* The `while` loop of Parser::sinchronyze.
Parser_sinchronyze_loop(toks, p) ==
    IF Parser_is_done(toks, p) THEN Ok(p, NoNode)
    ELSE IF PreviousPanics(p) THEN Panic(p)
    ELSE IF Parser_previous(toks, p).kind = "Semicolon" THEN Ok(p, NoNode)
    ELSE IF PeekIs(toks, p, {"If", "For", "While", "Fun", "Return", "Class", "Var"})
    THEN Ok(p, NoNode)
    ELSE Parser_sinchronyze_loop(toks, Parser_next(toks, p))

\* Parser::sinchronyze without its first next().
Parser_sinchronyze_no_next(toks, p) ==
    Parser_sinchronyze_loop(toks, p)

\* Parser::sinchronyze.  Its first next() returns tokens[current - 1], which
\* panics when the cursor is on Eof at position 0.
Parser_sinchronyze(toks, p) ==
    IF Parser_is_done(toks, p) /\ p.current = 0 THEN Panic(p)
    ELSE Parser_sinchronyze_loop(toks, Parser_next(toks, p))

\* Parser::new; the locals of Parser::program are kept beside the parser.
Parser_new == [current |-> 0, reported |-> 0]

\* An iteration of Parser::program that keeps the statements pushed before
\* a failed declaration.
program_iteration_push_keep(toks, s, declaration) ==
    LET sync == Parser_sinchronyze(toks, declaration.p)
        step(panic, p, statements, had_error, reports) ==
            [panic |-> panic, reports |-> reports,
             s |-> [p |-> p, statements |-> statements, had_error |-> had_error]]
    IN IF declaration.panic THEN step(TRUE, declaration.p, s.statements, s.had_error, <<>>)
       ELSE IF declaration.ok
       THEN step(FALSE, declaration.p,
                 IF ~s.had_error THEN Append(s.statements, declaration.node)
                 ELSE s.statements, s.had_error, <<>>)
       ELSE step(sync.panic, sync.p, s.statements, TRUE, <<declaration.error>>)

\* Parser::program, the body of its `while !self.is_done()` loop after
\* `self.declaration()`: the statement is pushed, or the parser
\* synchronizes and the list is emptied.  s is [p, statements, had_error];
\* the result adds `panic` and the diagnostic the iteration reports, if any.
program_iteration_push(toks, s, declaration) ==
    LET sync == Parser_sinchronyze(toks, declaration.p)
        step(panic, p, statements, had_error, reports) ==
            [panic |-> panic, reports |-> reports,
             s |-> [p |-> p, statements |-> statements, had_error |-> had_error]]
    IN IF declaration.panic THEN step(TRUE, declaration.p, s.statements, s.had_error, <<>>)
       ELSE IF declaration.ok
       THEN step(FALSE, declaration.p,
                 IF ~s.had_error THEN Append(s.statements, declaration.node)
                 ELSE s.statements, s.had_error, <<>>)
       ELSE step(sync.panic, sync.p, <<>>, TRUE, <<declaration.error>>)

\* One iteration of the `while !self.is_done()` loop of Parser::program.
Parser_program_iteration(toks, s) ==
    program_iteration_push(toks, s, parser_declaration(toks, s.p))

(***************************************************************************)
(* Resolver (resolver.rs).  The resolver state r is the struct's fields    *)
(* [scopes, locals, had_error, is_in_loop, function_kind, class_kind];     *)
(* scopes is the stack (last element on top), each scope a map from name   *)
(* to `defined yet?`, locals the map from Reference to depth.  Every       *)
(* resolve_* function returns [ok, r, error]; on Err the changes made to   *)
(* the state before the `?` returned are kept, as in the source.  The      *)
(* source of an error is the ResolverError variant, [kind |-> its name]    *)
(* and, for AttemptedToRedeclareVariable, the identifier it carries.       *)
(***************************************************************************)
Resolver_new ==
    [scopes |-> <<>>, locals |-> EmptyMap, had_error |-> FALSE,
     is_in_loop |-> FALSE, function_kind |-> "None", class_kind |-> "None"]

ROk(r) == [ok |-> TRUE, r |-> r, error |-> NoError]
RErr(r, error) == [ok |-> FALSE, r |-> r, error |-> error]

\* Resolver::begin_scope
Resolver_begin_scope(r) == [r EXCEPT !.scopes = Append(@, EmptyMap)]

\* Resolver::end_scope
Resolver_end_scope(r) ==
    [r EXCEPT !.scopes = IF Len(@) = 0 THEN @ ELSE SubSeq(@, 1, Len(@) - 1)]

\* Resolver::declare, the slot inserted as already defined.
Resolver_declare_defined(r, identifier, line, column) ==
    IF Len(r.scopes) = 0 THEN ROk(r)
    ELSE IF HasKey(r.scopes[Len(r.scopes)], identifier)
    THEN RErr(r, Error(line, column,
                    [kind |-> "AttemptedToRedeclareVariable",
                     identifier |-> identifier]))
    ELSE ROk([r EXCEPT !.scopes[Len(r.scopes)] = Insert(@, identifier, TRUE)])

\* Resolver::declare
Resolver_declare(r, identifier, line, column) ==
    IF Len(r.scopes) = 0 THEN ROk(r)
    ELSE IF HasKey(r.scopes[Len(r.scopes)], identifier)
    THEN RErr(r, Error(line, column,
                    [kind |-> "AttemptedToRedeclareVariable",
                     identifier |-> identifier]))
    ELSE ROk([r EXCEPT !.scopes[Len(r.scopes)] = Insert(@, identifier, FALSE)])

\* Resolver::define
Resolver_define(r, identifier) ==
    IF Len(r.scopes) = 0 THEN r
    ELSE [r EXCEPT !.scopes[Len(r.scopes)] = Insert(@, identifier, TRUE)]

RECURSIVE resolve_local_loop(_, _, _)
\* The loop of Resolver::resolve_local: i runs over the scope indices from
\* the top of the stack (here Len(scopes)) to the bottom (here 1), and each
\* scope that holds the name inserts its depth; no iteration leaves the loop.
resolve_local_loop(r, reference, i) ==
    IF i = 0 THEN r
    ELSE resolve_local_loop(
             IF HasKey(r.scopes[i], reference.identifier)
             THEN [r EXCEPT !.locals = Insert(@, reference, Len(r.scopes) - i)]
             ELSE r,
             reference, i - 1)

\* Resolver::resolve_local
Resolver_resolve_local(r, reference) ==
    resolve_local_loop(r, reference, Len(r.scopes))

\* The calls `self.method(...)` of the Resolver's methods on one another.
RECURSIVE ResolverCall(_, _)
resolver_resolve_statement(a, b) == ResolverCall("resolve_statement", <<a, b>>)
resolver_resolve_expression(a, b) == ResolverCall("resolve_expression", <<a, b>>)
resolver_resolve_function(a, b, c, d) == ResolverCall("resolve_function", <<a, b, c, d>>)
resolver_resolve_statements(a, b, c) == ResolverCall("resolve_statements", <<a, b, c>>)
resolver_resolve_expressions(a, b, c) == ResolverCall("resolve_expressions", <<a, b, c>>)
resolver_resolve_parameters(a, b, c) == ResolverCall("resolve_parameters", <<a, b, c>>)
resolver_resolve_methods(a, b, c) == ResolverCall("resolve_methods", <<a, b, c>>)

\* `for statement in statements { self.resolve_statement(statement)?; }`
Resolver_resolve_statements(r, statements, i) ==
    IF i > Len(statements) THEN ROk(r)
    ELSE LET res == resolver_resolve_statement(r, statements[i])
         IN IF ~res.ok THEN res ELSE resolver_resolve_statements(res.r, statements, i + 1)

\* `for arg in args.iter() { self.resolve_expression(arg)?; }`
Resolver_resolve_expressions(r, expressions, i) ==
    IF i > Len(expressions) THEN ROk(r)
    ELSE LET res == resolver_resolve_expression(r, expressions[i])
         IN IF ~res.ok THEN res ELSE resolver_resolve_expressions(res.r, expressions, i + 1)

\* The parameter loop of Resolver::resolve_function.
Resolver_resolve_parameters(r, parameters, i) ==
    IF i > Len(parameters) THEN ROk(r)
    ELSE LET res == Resolver_declare(r, parameters[i], 0, 0)
         IN IF ~res.ok THEN res
            ELSE resolver_resolve_parameters(Resolver_define(res.r, parameters[i]),
                                    parameters, i + 1)

\* Resolver::resolve_function
Resolver_resolve_function(r, parameters, body, function_kind) ==
    LET prev_function_kind == r.function_kind
        is_in_loop == r.is_in_loop
        r1 == Resolver_begin_scope([r EXCEPT !.is_in_loop = FALSE,
                                             !.function_kind = function_kind])
        params == resolver_resolve_parameters(r1, parameters, 1)
    IN IF ~params.ok THEN params
       ELSE LET res == resolver_resolve_statements(params.r, body.statements, 1)
            IN IF ~res.ok THEN res
               ELSE ROk([Resolver_end_scope(res.r) EXCEPT
                            !.function_kind = prev_function_kind,
                            !.is_in_loop = is_in_loop])

\* The method loop of Resolver::resolve_statement (Statement::Class).
Resolver_resolve_methods(r, methods, i) ==
    IF i > Len(methods) THEN ROk(r)
    ELSE LET method_type == IF methods[i].identifier = "init"
                            THEN "Initializer" ELSE "Method"
             res == resolver_resolve_function(r, methods[i].parameters,
                                              methods[i].body, method_type)
         IN IF ~res.ok THEN res ELSE resolver_resolve_methods(res.r, methods, i + 1)

\* Resolver::resolve_statement (Statement::Class)
resolve_class(r, statement) ==
    LET class_kind == r.class_kind
        declared == Resolver_declare([r EXCEPT !.class_kind = "Class"],
                                     statement.identifier, statement.line,
                                     statement.column)
    IN IF ~declared.ok THEN declared
       ELSE
       LET r1 == Resolver_define(declared.r, statement.identifier)
           with_super ==
               IF ~IsSome(statement.super_class) THEN ROk(r1)
               ELSE LET reference == Unwrap(statement.super_class).reference
                        r2 == [r1 EXCEPT !.class_kind = "Subclass"]
                    IN IF reference.identifier = statement.identifier
                       THEN RErr(r2, Error(reference.line, reference.column,
                                           [kind |-> "ClassCannotInheritFromItself"]))
                       ELSE LET d == Resolver_declare(Resolver_begin_scope(r2),
                                         "super", statement.line, statement.column)
                            IN IF ~d.ok THEN d
                               ELSE resolver_resolve_expression(
                                        Resolver_define(d.r, "super"),
                                        Unwrap(statement.super_class))
       IN IF ~with_super.ok THEN with_super
          ELSE LET d == Resolver_declare(Resolver_begin_scope(with_super.r),
                                         "this", statement.line, statement.column)
               IN IF ~d.ok THEN d
                  ELSE LET methods == resolver_resolve_methods(Resolver_define(d.r, "this"),
                                                      statement.methods, 1)
                       IN IF ~methods.ok THEN methods
                          ELSE LET r3 == IF IsSome(statement.super_class)
                                         THEN Resolver_end_scope(methods.r)
                                         ELSE methods.r
                               IN ROk([Resolver_end_scope(r3) EXCEPT
                                          !.class_kind = class_kind])

\* Resolver::resolve_statement
Resolver_resolve_statement(r, statement) ==
    CASE statement.s = "Expression" ->
           resolver_resolve_expression(r, statement.expression)
      [] statement.s = "Declaration" ->
           LET declared == Resolver_declare(r, statement.identifier,
                                            statement.line, statement.column)
           IN IF ~declared.ok THEN declared
              ELSE LET res == IF IsSome(statement.initializer)
                              THEN resolver_resolve_expression(
                                       declared.r, Unwrap(statement.initializer))
                              ELSE ROk(declared.r)
                   IN IF ~res.ok THEN res
                      ELSE ROk(Resolver_define(res.r, statement.identifier))
      [] statement.s = "Block" ->
           LET res == resolver_resolve_statements(Resolver_begin_scope(r),
                                         statement.statements, 1)
           IN IF ~res.ok THEN res ELSE ROk(Resolver_end_scope(res.r))
      [] statement.s = "If" ->
           LET condition == resolver_resolve_expression(r, statement.condition)
           IN IF ~condition.ok THEN condition
              ELSE LET then_branch ==
                           resolver_resolve_statement(condition.r, statement.then_branch)
                   IN IF ~then_branch.ok THEN then_branch
                      ELSE IF IsSome(statement.else_branch)
                      THEN resolver_resolve_statement(then_branch.r,
                                                      Unwrap(statement.else_branch))
                      ELSE then_branch
      [] statement.s = "While" ->
           LET is_in_loop == r.is_in_loop
               condition == resolver_resolve_expression(
                                [r EXCEPT !.is_in_loop = TRUE], statement.condition)
           IN IF ~condition.ok THEN condition
              ELSE LET body == resolver_resolve_statement(condition.r, statement.body)
                   IN IF ~body.ok THEN body
                      ELSE ROk([body.r EXCEPT !.is_in_loop = is_in_loop])
      [] statement.s = "Break" ->
           IF ~r.is_in_loop
           THEN RErr(r, Error(statement.line, statement.column,
                              [kind |-> "UnexpectedBreakStatement"]))
           ELSE ROk(r)
      [] statement.s = "Continue" ->
           IF ~r.is_in_loop
           THEN RErr(r, Error(statement.line, statement.column,
                              [kind |-> "UnexpectedContinueStatement"]))
           ELSE ROk(r)
      [] statement.s = "Function" ->
           LET declared == Resolver_declare(r, statement.identifier,
                                            statement.line, statement.column)
           IN IF ~declared.ok THEN declared
              ELSE resolver_resolve_function(
                       Resolver_define(declared.r, statement.identifier),
                       statement.parameters, statement.body, "Function")
      [] statement.s = "Return" ->
           IF r.function_kind = "None"
           THEN RErr(r, Error(statement.line, statement.column,
                              [kind |-> "UnexpectedReturnStatement"]))
           ELSE IF ~IsSome(statement.expression) THEN ROk(r)
           ELSE IF r.function_kind = "Initializer"
           THEN RErr(r, Error(statement.line, statement.column,
                              [kind |-> "CannotReturnFromInitializer"]))
           ELSE resolver_resolve_expression(r, Unwrap(statement.expression))
      [] statement.s = "Class" -> resolve_class(r, statement)

\* Resolver::resolve_expression
Resolver_resolve_expression(r, expression) ==
    CASE expression.e = "Ternary" ->
           resolver_resolve_expressions(r, <<expression.condition, expression.truthy,
                                    expression.falsey>>, 1)
      [] expression.e \in {"Logical", "Binary"} ->
           resolver_resolve_expressions(r, <<expression.left, expression.right>>, 1)
      [] expression.e \in {"GroupingExpression", "Unary"} ->
           resolver_resolve_expression(r, expression.expression)
      [] expression.e = "Literal" -> ROk(r)
      [] expression.e = "Variable" ->
           IF /\ Len(r.scopes) > 0
              /\ HasKey(r.scopes[Len(r.scopes)], expression.reference.identifier)
              /\ r.scopes[Len(r.scopes)][expression.reference.identifier] = FALSE
           THEN RErr(r, Error(expression.reference.line, expression.reference.column,
                              [kind |-> "AttemptedToAccessVariableInItsOwnInitializer"]))
           ELSE ROk(Resolver_resolve_local(r, expression.reference))
      [] expression.e = "Assignment" ->
           LET value == resolver_resolve_expression(r, expression.value)
           IN IF ~value.ok THEN value
              ELSE ROk(Resolver_resolve_local(value.r, expression.reference))
      [] expression.e = "AnonymousFunction" ->
           resolver_resolve_function(r, expression.parameters, expression.body,
                                     "Function")
      [] expression.e = "Call" ->
           LET callee == resolver_resolve_expression(r, expression.callee)
           IN IF ~callee.ok THEN callee
              ELSE resolver_resolve_expressions(callee.r, expression.args, 1)
      [] expression.e = "Get" -> resolver_resolve_expression(r, expression.object)
      [] expression.e = "Set" ->
           resolver_resolve_expressions(r, <<expression.object, expression.value>>, 1)
      [] expression.e = "This" ->
           IF r.class_kind = "None"
           THEN RErr(r, Error(expression.line, expression.column,
                              [kind |-> "UnexpectedThisKeyword"]))
           ELSE ROk(Resolver_resolve_local(r,
                        Reference(expression.line, expression.column, "this")))
      [] expression.e = "Super" ->
           IF r.class_kind # "Subclass"
           THEN RErr(r, Error(expression.line, expression.column,
                              [kind |-> "UnexpectedSuperKeyword"]))
           ELSE ROk(Resolver_resolve_local(r,
                        Reference(expression.line, expression.column, "super")))

\* A call of a method of the Resolver: `method` names it, `a` holds its arguments.
ResolverCall(method, a) ==
    CASE method = "resolve_statement" -> Resolver_resolve_statement(a[1], a[2])
      [] method = "resolve_expression" -> Resolver_resolve_expression(a[1], a[2])
      [] method = "resolve_function" -> Resolver_resolve_function(a[1], a[2], a[3], a[4])
      [] method = "resolve_statements" -> Resolver_resolve_statements(a[1], a[2], a[3])
      [] method = "resolve_expressions" -> Resolver_resolve_expressions(a[1], a[2], a[3])
      [] method = "resolve_parameters" -> Resolver_resolve_parameters(a[1], a[2], a[3])
      [] method = "resolve_methods" -> Resolver_resolve_methods(a[1], a[2], a[3])

\* One iteration of the loop of Resolver::resolve: the resolver after it and
\* the diagnostic it reports, if any.
Resolver_resolve_iteration(r, statement) ==
    LET res == resolver_resolve_statement(r, statement)
    IN IF res.ok THEN [r |-> res.r, reports |-> <<>>]
       ELSE [r |-> [res.r EXCEPT !.had_error = TRUE], reports |-> <<res.error>>]

(***************************************************************************)
(* Runtime values (value.rs, callable.rs, instance.rs).                    *)
(*   [t |-> "String", s] [t |-> "Number", n] [t |-> "Boolean", b]          *)
(*   [t |-> "Nil"] [t |-> "Instance", id]                                  *)
(*   [t |-> "Callable", arity, kind], kind one of                          *)
(*     [k |-> "NativeFunction", name]                                      *)
(*     [k |-> "LoxFunction", identifier, parameters, body, closure,        *)
(*      is_initializer]                                                    *)
(*     [k |-> "LoxClass", class], class = [identifier, methods,            *)
(*      super_class]                                                       *)
(* An Rc<RefCell<Environment>> is the index of the environment in the heap *)
(* I.envs, an Rc<RefCell<LoxInstance>> the index of the instance in        *)
(* I.instances: aliases are equal indices.  Numbers are integers here.     *)
(***************************************************************************)
String(s) == [t |-> "String", s |-> s]
Number(n) == [t |-> "Number", n |-> n]
Boolean(b) == [t |-> "Boolean", b |-> b]
Nil == [t |-> "Nil"]
Instance(id) == [t |-> "Instance", id |-> id]
Callable(arity, kind) == [t |-> "Callable", arity |-> arity, kind |-> kind]
NativeFunction(name) == [k |-> "NativeFunction", name |-> name]
LoxFunction(identifier, parameters, body, closure, is_initializer) ==
    [k |-> "LoxFunction", identifier |-> identifier, parameters |-> parameters,
     body |-> body, closure |-> closure, is_initializer |-> is_initializer]
LoxClass(identifier, methods, super_class) ==
    [identifier |-> identifier, methods |-> methods, super_class |-> super_class]
LoxClassKind(class) == [k |-> "LoxClass", class |-> class]

\* impl From<Literal> for Value
ValueFromLiteral(literal) == literal

\* Value::type_name
Value_type_name(v) ==
    CASE v.t = "String" -> "string" [] v.t = "Number" -> "number"
      [] v.t = "Boolean" -> "boolean" [] v.t = "Nil" -> "nil"
      [] v.t = "Callable" -> "function" [] v.t = "Instance" -> "object"

\* Value::is_truthy
Value_is_truthy(v) == ~(v.t = "Nil" \/ (v.t = "Boolean" /\ v.b = FALSE))

\* impl Display for CallableKind
CallableKind_to_string(kind) ==
    CASE kind.k = "NativeFunction" -> "<native fn>"
      [] kind.k = "LoxFunction" ->
           IF IsSome(kind.identifier) THEN "<fn " \o Unwrap(kind.identifier) \o ">"
           ELSE "<anonymous fn>"
      [] kind.k = "LoxClass" -> "<class " \o kind.class.identifier \o ">"

\* impl Display for Value; I gives the instance's class.
Value_to_string(I, v) ==
    CASE v.t = "String" -> v.s
      [] v.t = "Number" -> ToString(v.n)
      [] v.t = "Boolean" -> IF v.b THEN "true" ELSE "false"
      [] v.t = "Nil" -> "nil"
      [] v.t = "Callable" -> CallableKind_to_string(v.kind)
      [] v.t = "Instance" -> "<" \o I.instances[v.id].class.identifier \o " instance>"

\* LoxClass::find_method without the walk up the superclasses.
LoxClass_find_method_own(class, identifier) ==
    IF HasKey(class.methods, identifier) THEN Some(class.methods[identifier])
    ELSE None

RECURSIVE LoxClass_find_method(_, _)
\* LoxClass::find_method
LoxClass_find_method(class, identifier) ==
    IF HasKey(class.methods, identifier) THEN Some(class.methods[identifier])
    ELSE IF IsSome(class.super_class)
    THEN LoxClass_find_method(Unwrap(class.super_class), identifier)
    ELSE None

(***************************************************************************)
(* Environment (environment.rs).  An environment is [parent, values]:      *)
(* parent is 0 for None, values maps a name to Unassigned or               *)
(* Assigned(value).  The operations take the interpreter state I (for its  *)
(* heap) and the environment's index.                                      *)
(***************************************************************************)
Unassigned == [st |-> "Unassigned"]
Assigned(value) == [st |-> "Assigned", value |-> value]

RuntimeError(line, column, source) ==
    [line |-> line, column |-> column, source |-> source]
NoRuntimeError == RuntimeError(0, 0, [kind |-> "None"])

XOk(I, value) == [k |-> "ok", I |-> I, value |-> value, error |-> NoRuntimeError]
XErr(I, error) == [k |-> "err", I |-> I, value |-> Nil, error |-> error]
XPanic(I) == [k |-> "panic", I |-> I, value |-> Nil, error |-> NoRuntimeError]

\* Environment::new
Environment_new == [parent |-> 0, values |-> EmptyMap]

\* Environment::spawn_child: the heap with the new environment, whose index
\* is Len(I.envs) + 1.
Environment_spawn_child(I, parent) ==
    [I EXCEPT !.envs = Append(@, [parent |-> parent, values |-> EmptyMap])]
LastEnv(I) == Len(I.envs)

\* Environment::define with None stored as Assigned(Nil).
Environment_define_nil(I, env, name, value) ==
    [I EXCEPT !.envs[env].values =
        Insert(@, name, IF IsSome(value) THEN Assigned(Unwrap(value)) ELSE Assigned(Nil))]

\* Environment::define
Environment_define(I, env, name, value) ==
    [I EXCEPT !.envs[env].values =
        Insert(@, name, IF IsSome(value) THEN Assigned(Unwrap(value)) ELSE Unassigned)]

\* Environment::assign
Environment_assign(I, env, reference, value) ==
    IF HasKey(I.envs[env].values, reference.identifier)
    THEN XOk([I EXCEPT !.envs[env].values =
                 Insert(@, reference.identifier, Assigned(value))], Nil)
    ELSE XErr(I, RuntimeError(reference.line, reference.column,
                  [kind |-> "UndeclaredVariable", name |-> reference.identifier]))

\* Environment::lookup
Environment_lookup(I, env, reference) ==
    IF ~HasKey(I.envs[env].values, reference.identifier)
    THEN XErr(I, RuntimeError(reference.line, reference.column,
                  [kind |-> "UndeclaredVariable", name |-> reference.identifier]))
    ELSE LET state == I.envs[env].values[reference.identifier]
         IN IF state.st = "Assigned" THEN XOk(I, state.value)
            ELSE XErr(I, RuntimeError(reference.line, reference.column,
                          [kind |-> "UnassignedVariable",
                           name |-> reference.identifier]))

RECURSIVE ancestor_loop(_, _, _)
\* The loop of Environment::ancestor: `current` after n more iterations; 0
\* is None, -1 the unreachable!() taken when current is None in the loop.
ancestor_loop(I, current, n) ==
    IF n = 0 THEN current
    ELSE IF current = 0 THEN -1
    ELSE ancestor_loop(I, I.envs[current].parent, n - 1)

\* Environment::ancestor: the index of the ancestor, or a value <= 0 when the
\* call panics (distance 0, a missing parent in the loop, the final unwrap).
Environment_ancestor(I, env, distance) ==
    IF distance = 0 THEN -1
    ELSE ancestor_loop(I, I.envs[env].parent, distance - 1)

\* Environment::lookup_at
Environment_lookup_at(I, env, distance, reference) ==
    LET target == IF distance = 0 THEN env ELSE Environment_ancestor(I, env, distance)
    IN IF target <= 0 THEN XPanic(I)
       ELSE IF ~HasKey(I.envs[target].values, reference.identifier) THEN XPanic(I)
       ELSE LET state == I.envs[target].values[reference.identifier]
            IN IF state.st = "Assigned" THEN XOk(I, state.value)
               ELSE XErr(I, RuntimeError(reference.line, reference.column,
                             [kind |-> "UnassignedVariable",
                              name |-> reference.identifier]))

\* Environment::assign_at writing to a copy of the ancestor: the write is
\* lost to every other holder of the scope.
Environment_assign_at_copy(I, env, distance, reference, value) ==
    XOk(I, Nil)

\* Environment::assign_at
Environment_assign_at(I, env, distance, reference, value) ==
    LET target == IF distance = 0 THEN env ELSE Environment_ancestor(I, env, distance)
    IN IF target <= 0 THEN XPanic(I)
       ELSE Environment_assign(I, target, reference, value)

(***************************************************************************)
(* Interpreter (interpreter.rs).  The interpreter state I is               *)
(* [envs, instances, environment, globals, locals, printed]: the heap of   *)
(* environments and of instances, the struct's fields, and the lines       *)
(* written to stdout by `print`, with the clock's reading and the lines    *)
(* waiting on stdin for the two other natives.  execute, evaluate and call return        *)
(* [k, I, value, error]: k = "ok" with the value, k = "err" for Err(error) *)
(* (Break, Continue and Return included), k = "panic" where the source     *)
(* panics, and k = "running" when a `while` loop is still running after    *)
(* MaxLoopIterations iterations.                                           *)
(***************************************************************************)
MaxLoopIterations == 4

XRunning(I) == [k |-> "running", I |-> I, value |-> Nil, error |-> NoRuntimeError]

\* Interpreter::new
Interpreter_new ==
    [envs |-> <<[parent |-> 0,
                 values |-> [x \in {"clock", "print", "readLine"} |->
                     Assigned(Callable(IF x = "print" THEN 1 ELSE 0,
                                       NativeFunction(x)))]]>>,
     instances |-> <<>>,
     environment |-> 1,
     globals |-> 1,
     locals |-> EmptyMap,
     printed |-> <<>>,
     now |-> 0,
     stdin |-> <<>>]

\* Interpreter::resolve_locals: HashMap::extend
Interpreter_resolve_locals(I, locals) ==
    [I EXCEPT !.locals = [x \in (DOMAIN @) \cup (DOMAIN locals) |->
                             IF x \in DOMAIN locals THEN locals[x] ELSE @[x]]]

\* impl PartialEq for CallableKind
CallableKind_eq(a, b) ==
    CASE a.k = "NativeFunction" /\ b.k = "NativeFunction" -> a.name = b.name
      [] a.k = "LoxFunction" /\ b.k = "LoxFunction" -> a.body.ptr = b.body.ptr
      [] OTHER -> FALSE

\* impl PartialEq for Value
Value_eq(a, b) ==
    CASE a.t = "String" /\ b.t = "String" -> a.s = b.s
      [] a.t = "Number" /\ b.t = "Number" -> a.n = b.n
      [] a.t = "Boolean" /\ b.t = "Boolean" -> a.b = b.b
      [] a.t = "Nil" /\ b.t = "Nil" -> TRUE
      [] a.t = "Callable" /\ b.t = "Callable" -> CallableKind_eq(a.kind, b.kind)
      [] a.t = "Instance" /\ b.t = "Instance" -> a.id = b.id
      [] OTHER -> FALSE

TypeError(operator, expected, found) ==
    RuntimeError(operator.line, operator.column,
                 [kind |-> "TypeError", expected |-> expected, found |-> found])

\* The string literals of the model's sources in lexicographic order, for
\* the comparison of two strings.
StringOrder == <<"A", "B", "a", "b", "block", "global">>
StringRank(s) == CHOOSE i \in 1..Len(StringOrder) : StringOrder[i] = s

\* Interpreter::evaluate_comparison
Interpreter_evaluate_comparison(I, left, operator, right) ==
    LET Compare(lt, eq) ==
            CASE operator.kind = "LessThan" -> lt
              [] operator.kind = "LessEqual" -> lt \/ eq
              [] operator.kind = "GreaterThan" -> ~lt /\ ~eq
              [] operator.kind = "GreaterEqual" -> ~lt
    IN CASE left.t = "String" /\ right.t = "String" ->
              XOk(I, Boolean(Compare(StringRank(left.s) < StringRank(right.s),
                                     left.s = right.s)))
         [] left.t = "Number" /\ right.t = "Number" ->
              XOk(I, Boolean(Compare(left.n < right.n, left.n = right.n)))
         [] left.t = "Boolean" /\ right.t = "Boolean" ->
              XOk(I, Boolean(Compare(~left.b /\ right.b, left.b = right.b)))
         [] left.t = "Nil" /\ right.t = "Nil" ->
              XOk(I, Boolean(operator.kind \in {"LessThan", "GreaterThan"}))
         [] OTHER ->
              XErr(I, TypeError(operator, Value_type_name(left),
                                Value_type_name(right)))

\* Interpreter::concatenate_strings
Interpreter_concatenate_strings(I, left, right) ==
    String(Value_to_string(I, left) \o Value_to_string(I, right))

\* Interpreter::evaluate_plus_operation
Interpreter_evaluate_plus_operation(I, left, operator, right) ==
    CASE left.t = "Number" /\ right.t = "Number" -> XOk(I, Number(left.n + right.n))
      [] left.t = "String" \/ right.t = "String" ->
           XOk(I, Interpreter_concatenate_strings(I, left, right))
      [] left.t = "Number" ->
           XErr(I, TypeError(operator, "number", Value_type_name(right)))
      [] OTHER ->
           XErr(I, TypeError(operator, "number\" or \"string", Value_type_name(left)))

\* The arithmetic arms of Interpreter::evaluate_binary_expression; the
\* quotient of two integers is taken exactly (the sources do not divide).
Arithmetic(I, left, operator, right) ==
    IF left.t = "Number" /\ right.t = "Number"
    THEN XOk(I, Number(CASE operator.kind = "Minus" -> left.n - right.n
                         [] operator.kind = "Star" -> left.n * right.n
                         [] operator.kind = "Slash" -> left.n \div right.n))
    ELSE XErr(I, TypeError(operator, "number",
                  Value_type_name(IF left.t = "Number" THEN right ELSE left)))

\* The match of Interpreter::evaluate_binary_expression on two values.
BinaryOperation(I, left, operator, right) ==
    CASE operator.kind = "Comma" -> XOk(I, right)
      [] operator.kind = "BangEqual" -> XOk(I, Boolean(~Value_eq(left, right)))
      [] operator.kind = "DoubleEquals" -> XOk(I, Boolean(Value_eq(left, right)))
      [] operator.kind \in {"GreaterThan", "GreaterEqual", "LessThan", "LessEqual"} ->
           Interpreter_evaluate_comparison(I, left, operator, right)
      [] operator.kind = "Plus" ->
           Interpreter_evaluate_plus_operation(I, left, operator, right)
      [] operator.kind \in {"Minus", "Star", "Slash"} ->
           Arithmetic(I, left, operator, right)

RECURSIVE lookup_chain(_, _, _)
\* The nearest binding of the name on the chain of environments from env.
lookup_chain(I, env, reference) ==
    IF env = 0 \/ HasKey(I.envs[env].values, reference.identifier)
    THEN Environment_lookup(I, IF env = 0 THEN I.globals ELSE env, reference)
    ELSE lookup_chain(I, I.envs[env].parent, reference)

\* A lookup_variable that ignores the resolver's table and searches the
\* environments from the current one outwards.
Interpreter_lookup_variable_dynamic(I, reference) ==
    lookup_chain(I, I.environment, reference)

\* Interpreter::lookup_variable
Interpreter_lookup_variable(I, reference) ==
    IF HasKey(I.locals, reference)
    THEN Environment_lookup_at(I, I.environment, I.locals[reference], reference)
    ELSE Environment_lookup(I, I.globals, reference)

\* A binding that drops is_initializer.
BindMethod_plain(I, method, instance) ==
    LET I1 == Environment_spawn_child(I, method.kind.closure)
        I2 == Environment_define(I1, LastEnv(I1), "this", Some(Instance(instance)))
    IN XOk(I2, Callable(method.arity,
                        LoxFunction(method.kind.identifier, method.kind.parameters,
                                    method.kind.body, LastEnv(I1), FALSE)))

\* The bound method built by LoxInstance::get, by Expression::Super and by
\* the class arm of Interpreter::call: the method with a closure that is a
\* fresh child of the method's closure defining `this`.  The result's value
\* is the bound Callable.
BindMethod(I, method, instance) ==
    LET I1 == Environment_spawn_child(I, method.kind.closure)
        I2 == Environment_define(I1, LastEnv(I1), "this", Some(Instance(instance)))
    IN XOk(I2, Callable(method.arity,
                        LoxFunction(method.kind.identifier, method.kind.parameters,
                                    method.kind.body, LastEnv(I1),
                                    method.kind.is_initializer)))

\* LoxInstance::get looking for the method before the field.
LoxInstance_get_method_first(I, instance, identifier, line, column) ==
    LET method == LoxClass_find_method(I.instances[instance].class, identifier)
    IN IF IsSome(method) THEN BindMethod(I, Unwrap(method), instance)
       ELSE IF HasKey(I.instances[instance].fields, identifier)
       THEN XOk(I, I.instances[instance].fields[identifier])
       ELSE XErr(I, RuntimeError(line, column,
                     [kind |-> "UndefinedProperty", name |-> identifier]))

\* LoxInstance::get
LoxInstance_get(I, instance, identifier, line, column) ==
    IF HasKey(I.instances[instance].fields, identifier)
    THEN XOk(I, I.instances[instance].fields[identifier])
    ELSE LET method == LoxClass_find_method(I.instances[instance].class, identifier)
         IN IF IsSome(method) THEN BindMethod(I, Unwrap(method), instance)
            ELSE XErr(I, RuntimeError(line, column,
                          [kind |-> "UndefinedProperty", name |-> identifier]))

\* LoxInstance::set
LoxInstance_set(I, instance, identifier, value) ==
    [I EXCEPT !.instances[instance].fields = Insert(@, identifier, value)]

\* The calls `self.method(...)` of the Interpreter's methods on one another.
RECURSIVE InterpreterCall(_, _)
interpreter_execute(a, b) == InterpreterCall("execute", <<a, b>>)
interpreter_execute_statements(a, b, c) == InterpreterCall("execute_statements", <<a, b, c>>)
interpreter_while_loop(a, b, c) == InterpreterCall("while_loop", <<a, b, c>>)
interpreter_evaluate(a, b) == InterpreterCall("evaluate", <<a, b>>)
interpreter_evaluate_arguments(a, b, c, d) == InterpreterCall("evaluate_arguments", <<a, b, c, d>>)
interpreter_call(a, b, c) == InterpreterCall("call", <<a, b, c>>)
interpreter_call_body(a, b, c, d, e, f) == InterpreterCall("call_body", <<a, b, c, d, e, f>>)

\* Interpreter::execute_block restoring the environment on success only.
Interpreter_execute_block_no_restore(I, statements) ==
    LET current == I.environment
        I1 == Environment_spawn_child(I, current)
        r == interpreter_execute_statements([I1 EXCEPT !.environment = LastEnv(I1)],
                                statements, 1)
    IN IF r.k = "ok"
       THEN [r EXCEPT !.I.environment = current]
       ELSE r

\* Interpreter::execute_block
Interpreter_execute_block(I, statements) ==
    LET current == I.environment
        I1 == Environment_spawn_child(I, current)
        r == interpreter_execute_statements([I1 EXCEPT !.environment = LastEnv(I1)],
                                statements, 1)
    IN IF r.k \in {"ok", "err"}
       THEN [r EXCEPT !.I.environment = current]
       ELSE r

\* The loop of Interpreter::execute_block from statement i on; the caller
\* restores the environment.
Interpreter_execute_statements(I, statements, i) ==
    IF i > Len(statements) THEN XOk(I, Nil)
    ELSE LET r == interpreter_execute(I, statements[i])
         IN IF r.k # "ok" THEN r
            ELSE interpreter_execute_statements(r.I, statements, i + 1)

\* A `while` that takes every Err of its body for a Break.
while_loop_catch_all(I, statement, n) ==
    LET c == interpreter_evaluate(I, statement.condition)
    IN IF c.k # "ok" THEN c
       ELSE IF ~Value_is_truthy(c.value) THEN XOk(c.I, Nil)
       ELSE IF n >= MaxLoopIterations THEN XRunning(c.I)
       ELSE LET r == interpreter_execute(c.I, statement.body)
            IN CASE r.k = "ok" -> interpreter_while_loop(r.I, statement, n + 1)
                 [] r.k = "err" /\ r.error.source.kind = "Continue" ->
                      interpreter_while_loop(r.I, statement, n + 1)
                 [] r.k = "err" -> XOk(r.I, Nil)
                 [] OTHER -> r

\* The `while` of Interpreter::execute, Statement::While, with n iterations
\* begun so far.
Interpreter_while_loop(I, statement, n) ==
    LET c == interpreter_evaluate(I, statement.condition)
    IN IF c.k # "ok" THEN c
       ELSE IF ~Value_is_truthy(c.value) THEN XOk(c.I, Nil)
       ELSE IF n >= MaxLoopIterations THEN XRunning(c.I)
       ELSE LET r == interpreter_execute(c.I, statement.body)
            IN CASE r.k = "ok" -> interpreter_while_loop(r.I, statement, n + 1)
                 [] r.k = "err" /\ r.error.source.kind = "Break" -> XOk(r.I, Nil)
                 [] r.k = "err" /\ r.error.source.kind = "Continue" ->
                      interpreter_while_loop(r.I, statement, n + 1)
                 [] OTHER -> r

\* Statement::Class checking that the superclass is a class after the name
\* was defined as unassigned.
execute_class_define_first(I, statement) ==
    LET s == IF IsSome(statement.super_class)
             THEN interpreter_evaluate(I, Unwrap(statement.super_class))
             ELSE XOk(I, Nil)
        is_class == s.value.t = "Callable" /\ s.value.kind.k = "LoxClass"
        super_class == IF IsSome(statement.super_class)
                       THEN Some(s.value.kind.class) ELSE None
        I1 == Environment_define(s.I, s.I.environment, statement.identifier, None)
        current == I1.environment
        I2 == IF IsSome(super_class)
              THEN LET J == Environment_spawn_child(I1, I1.environment)
                   IN Environment_define([J EXCEPT !.environment = LastEnv(J)],
                          LastEnv(J), "super",
                          Some(Callable(0, LoxClassKind(Unwrap(super_class)))))
              ELSE I1
        names == {statement.methods[i].identifier : i \in DOMAIN statement.methods}
        \* HashMap::insert keeps the last method of a name
        last(name) == statement.methods[
            CHOOSE i \in DOMAIN statement.methods :
                /\ statement.methods[i].identifier = name
                /\ \A j \in DOMAIN statement.methods :
                       statement.methods[j].identifier = name => j <= i]
        methods_map == [name \in names |->
            Callable(Len(last(name).parameters),
                     LoxFunction(Some(name), last(name).parameters, last(name).body,
                                 I2.environment, name = "init"))]
        class == Callable(IF "init" \in names THEN methods_map["init"].arity ELSE 0,
                          LoxClassKind(LoxClass(statement.identifier, methods_map,
                                                super_class)))
        I3 == [I2 EXCEPT !.environment = current]
    IN IF s.k # "ok" THEN s
       ELSE IF IsSome(statement.super_class) /\ ~is_class
       THEN XErr(I1, RuntimeError(Unwrap(statement.super_class).reference.line,
                                  Unwrap(statement.super_class).reference.column,
                                  [kind |-> "SuperClassMustBeAClass"]))
       ELSE XOk(Environment_define(I3, I3.environment, statement.identifier,
                                   Some(class)), Nil)

\* Interpreter::execute, Statement::Class
execute_class(I, statement) ==
    LET s == IF IsSome(statement.super_class)
             THEN interpreter_evaluate(I, Unwrap(statement.super_class))
             ELSE XOk(I, Nil)
        is_class == s.value.t = "Callable" /\ s.value.kind.k = "LoxClass"
        super_class == IF IsSome(statement.super_class)
                       THEN Some(s.value.kind.class) ELSE None
        I1 == Environment_define(s.I, s.I.environment, statement.identifier, None)
        current == I1.environment
        I2 == IF IsSome(super_class)
              THEN LET J == Environment_spawn_child(I1, I1.environment)
                   IN Environment_define([J EXCEPT !.environment = LastEnv(J)],
                          LastEnv(J), "super",
                          Some(Callable(0, LoxClassKind(Unwrap(super_class)))))
              ELSE I1
        names == {statement.methods[i].identifier : i \in DOMAIN statement.methods}
        \* HashMap::insert keeps the last method of a name
        last(name) == statement.methods[
            CHOOSE i \in DOMAIN statement.methods :
                /\ statement.methods[i].identifier = name
                /\ \A j \in DOMAIN statement.methods :
                       statement.methods[j].identifier = name => j <= i]
        methods_map == [name \in names |->
            Callable(Len(last(name).parameters),
                     LoxFunction(Some(name), last(name).parameters, last(name).body,
                                 I2.environment, name = "init"))]
        class == Callable(IF "init" \in names THEN methods_map["init"].arity ELSE 0,
                          LoxClassKind(LoxClass(statement.identifier, methods_map,
                                                super_class)))
        I3 == [I2 EXCEPT !.environment = current]
    IN IF s.k # "ok" THEN s
       ELSE IF IsSome(statement.super_class) /\ ~is_class
       THEN XErr(s.I, RuntimeError(Unwrap(statement.super_class).reference.line,
                                   Unwrap(statement.super_class).reference.column,
                                   [kind |-> "SuperClassMustBeAClass"]))
       ELSE XOk(Environment_define(I3, I3.environment, statement.identifier,
                                   Some(class)), Nil)

\* Interpreter::execute
Interpreter_execute(I, statement) ==
    CASE statement.s = "Expression" ->
           LET r == interpreter_evaluate(I, statement.expression)
           IN IF r.k # "ok" THEN r ELSE XOk(r.I, Nil)
      [] statement.s = "Declaration" ->
           LET r == IF IsSome(statement.initializer)
                    THEN interpreter_evaluate(I, Unwrap(statement.initializer))
                    ELSE XOk(I, Nil)
           IN IF r.k # "ok" THEN r
              ELSE XOk(Environment_define(r.I, r.I.environment, statement.identifier,
                           IF IsSome(statement.initializer) THEN Some(r.value)
                           ELSE None), Nil)
      [] statement.s = "Block" -> Interpreter_execute_block(I, statement.statements)
      [] statement.s = "If" ->
           LET c == interpreter_evaluate(I, statement.condition)
           IN IF c.k # "ok" THEN c
              ELSE IF Value_is_truthy(c.value)
              THEN interpreter_execute(c.I, statement.then_branch)
              ELSE IF IsSome(statement.else_branch)
              THEN interpreter_execute(c.I, Unwrap(statement.else_branch))
              ELSE XOk(c.I, Nil)
      [] statement.s = "While" -> interpreter_while_loop(I, statement, 0)
      [] statement.s = "Break" ->
           XErr(I, RuntimeError(statement.line, statement.column, [kind |-> "Break"]))
      [] statement.s = "Continue" ->
           XErr(I, RuntimeError(statement.line, statement.column,
                                [kind |-> "Continue"]))
      [] statement.s = "Function" ->
           XOk(Environment_define(I, I.environment, statement.identifier,
                   Some(Callable(Len(statement.parameters),
                                 LoxFunction(Some(statement.identifier),
                                             statement.parameters, statement.body,
                                             I.environment, FALSE)))), Nil)
      [] statement.s = "Return" ->
           LET r == IF IsSome(statement.expression)
                    THEN interpreter_evaluate(I, Unwrap(statement.expression))
                    ELSE XOk(I, Nil)
           IN IF r.k # "ok" THEN r
              ELSE XErr(r.I, RuntimeError(statement.line, statement.column,
                                 [kind |-> "Return", value |-> r.value]))
      [] statement.s = "Class" -> execute_class(I, statement)

\* The closures of Interpreter::new, called by Interpreter::call.
NativeCall(I, name, args) ==
    CASE name = "print" ->
           XOk([I EXCEPT !.printed = Append(@, Value_to_string(I, args[1]))], Nil)
      [] name = "clock" -> XOk(I, Number(I.now))
      [] name = "readLine" ->
           IF I.stdin = <<>> THEN XOk(I, String(""))
           ELSE XOk([I EXCEPT !.stdin = Tail(@)], String(Head(I.stdin)))

\* The argument loop of Interpreter::evaluate_call; the result's value is
\* the sequence arg_values.
Interpreter_evaluate_arguments(I, args, i, arg_values) ==
    IF i > Len(args) THEN XOk(I, arg_values)
    ELSE LET r == interpreter_evaluate(I, args[i])
         IN IF r.k # "ok" THEN r
            ELSE interpreter_evaluate_arguments(r.I, args, i + 1, Append(arg_values, r.value))

\* Interpreter::evaluate_call without the guard on the number of arguments.
Interpreter_evaluate_call_any(I, callee, args, line, column) ==
    LET c == interpreter_evaluate(I, callee)
        a == interpreter_evaluate_arguments(c.I, args, 1, <<>>)
    IN IF c.k # "ok" THEN c
       ELSE IF a.k # "ok" THEN a
       ELSE IF c.value.t = "Callable"
       THEN interpreter_call(a.I, c.value, a.value)
       ELSE XErr(a.I, RuntimeError(line, column,
                     [kind |-> "TypeIsNotCallable",
                      found |-> Value_type_name(c.value)]))

\* Interpreter::evaluate_call
Interpreter_evaluate_call(I, callee, args, line, column) ==
    LET c == interpreter_evaluate(I, callee)
        a == interpreter_evaluate_arguments(c.I, args, 1, <<>>)
    IN IF c.k # "ok" THEN c
       ELSE IF a.k # "ok" THEN a
       ELSE IF c.value.t = "Callable" /\ Len(args) = c.value.arity
       THEN interpreter_call(a.I, c.value, a.value)
       ELSE IF c.value.t = "Callable"
       THEN XErr(a.I, RuntimeError(line, column,
                     [kind |-> "ImcorrectNumberOfArguments",
                      expected |-> c.value.arity, found |-> Len(args)]))
       ELSE XErr(a.I, RuntimeError(line, column,
                     [kind |-> "TypeIsNotCallable",
                      found |-> Value_type_name(c.value)]))

ThisReference == Reference(0, 0, "this")

RECURSIVE define_parameters(_, _, _, _)
\* The parameter loop of Interpreter::call: zip stops at the shorter of the
\* two sequences.
define_parameters(I, parameters, args, i) ==
    IF i > Len(parameters) \/ i > Len(args) THEN I
    ELSE define_parameters(Environment_define(I, I.environment, parameters[i],
                                              Some(args[i])),
                           parameters, args, i + 1)

\* A call that lets Return pass as any other Err.
call_body_uncaught(I, body, i, current, closure, is_initializer) ==
    IF i > Len(body)
    THEN LET I1 == [I EXCEPT !.environment = current]
         IN IF is_initializer
            THEN Environment_lookup_at(I1, closure, 0, ThisReference)
            ELSE XOk(I1, Nil)
    ELSE LET r == interpreter_execute(I, body[i])
             I1 == [r.I EXCEPT !.environment = current]
         IN CASE r.k = "ok" ->
                   interpreter_call_body(r.I, body, i + 1, current, closure, is_initializer)
              [] r.k = "err" -> XErr(I1, r.error)
              [] OTHER -> r

\* The body loop of Interpreter::call for a LoxFunction, from statement i on,
\* and what follows the loop.
Interpreter_call_body(I, body, i, current, closure, is_initializer) ==
    IF i > Len(body)
    THEN LET I1 == [I EXCEPT !.environment = current]
         IN IF is_initializer
            THEN Environment_lookup_at(I1, closure, 0, ThisReference)
            ELSE XOk(I1, Nil)
    ELSE LET r == interpreter_execute(I, body[i])
             I1 == [r.I EXCEPT !.environment = current]
         IN CASE r.k = "ok" ->
                   interpreter_call_body(r.I, body, i + 1, current, closure, is_initializer)
              [] r.k = "err" /\ r.error.source.kind = "Return" /\ is_initializer ->
                   Environment_lookup_at(I1, closure, 0, ThisReference)
              [] r.k = "err" /\ r.error.source.kind = "Return" ->
                   XOk(I1, r.error.source.value)
              [] r.k = "err" -> XErr(I1, r.error)
              [] OTHER -> r

\* Interpreter::call
Interpreter_call(I, function, args) ==
    CASE function.kind.k = "NativeFunction" -> NativeCall(I, function.kind.name, args)
      [] function.kind.k = "LoxFunction" ->
           LET current == I.environment
               I1 == Environment_spawn_child(I, function.kind.closure)
               I2 == define_parameters([I1 EXCEPT !.environment = LastEnv(I1)],
                                       function.kind.parameters, args, 1)
           IN interpreter_call_body(I2, function.kind.body.statements, 1, current,
                        function.kind.closure, function.kind.is_initializer)
      [] function.kind.k = "LoxClass" ->
           LET class == function.kind.class
               instance == Len(I.instances) + 1
               I1 == [I EXCEPT !.instances =
                         Append(@, [class |-> class, fields |-> EmptyMap])]
           IN IF ~HasKey(class.methods, "init") THEN XOk(I1, Instance(instance))
              ELSE LET initializer == BindMethod(I1, class.methods["init"], instance)
                   IN interpreter_call(initializer.I, initializer.value, args)

\* Interpreter::evaluate, Expression::Super
evaluate_super(I, expression) ==
    LET super_reference == Reference(expression.line, expression.column, "super")
    IN IF ~HasKey(I.locals, super_reference) THEN XPanic(I)
       ELSE
       LET distance == I.locals[super_reference]
           super_class == Environment_lookup_at(I, I.environment, distance,
                                                super_reference)
           \* distance - 1 is a usize subtraction
           object == IF distance = 0 THEN XPanic(I)
                     ELSE Environment_lookup_at(I, I.environment, distance - 1,
                                                ThisReference)
       IN IF super_class.k # "ok" THEN super_class
          ELSE IF ~(super_class.value.t = "Callable"
                    /\ super_class.value.kind.k = "LoxClass") THEN XPanic(I)
          ELSE IF object.k # "ok" THEN object
          ELSE IF object.value.t # "Instance" THEN XPanic(I)
          ELSE LET method == LoxClass_find_method(super_class.value.kind.class,
                                                  expression.method)
               IN IF IsSome(method)
                  THEN BindMethod(I, Unwrap(method), object.value.id)
                  ELSE XErr(I, RuntimeError(expression.line, expression.column,
                                [kind |-> "UndefinedProperty",
                                 name |-> expression.method]))

\* Interpreter::evaluate
Interpreter_evaluate(I, expression) ==
    CASE expression.e = "Ternary" ->
           \* Interpreter::evaluate_ternary_expression
           LET c == interpreter_evaluate(I, expression.condition)
           IN IF c.k # "ok" THEN c
              ELSE IF Value_is_truthy(c.value)
              THEN interpreter_evaluate(c.I, expression.truthy)
              ELSE interpreter_evaluate(c.I, expression.falsey)
      [] expression.e = "Binary" ->
           \* Interpreter::evaluate_binary_expression
           LET left == interpreter_evaluate(I, expression.left)
               right == interpreter_evaluate(left.I, expression.right)
           IN IF left.k # "ok" THEN left
              ELSE IF right.k # "ok" THEN right
              ELSE BinaryOperation(right.I, left.value, expression.operator,
                                   right.value)
      [] expression.e = "Logical" ->
           \* Interpreter::evaluate_logical_expression
           LET left == interpreter_evaluate(I, expression.left)
           IN IF left.k # "ok" THEN left
              ELSE IF (expression.operator.kind = "And") = Value_is_truthy(left.value)
              THEN interpreter_evaluate(left.I, expression.right)
              ELSE left
      [] expression.e = "Unary" ->
           LET r == interpreter_evaluate(I, expression.expression)
           IN IF r.k # "ok" THEN r
              ELSE IF expression.operator.kind = "Bang"
              THEN XOk(r.I, Boolean(~Value_is_truthy(r.value)))
              ELSE IF r.value.t = "Number" THEN XOk(r.I, Number(-r.value.n))
              ELSE XErr(r.I, TypeError(expression.operator, "number",
                                       Value_type_name(r.value)))
      [] expression.e = "GroupingExpression" ->
           interpreter_evaluate(I, expression.expression)
      [] expression.e = "Literal" -> XOk(I, ValueFromLiteral(expression.literal))
      [] expression.e = "Variable" ->
           Interpreter_lookup_variable(I, expression.reference)
      [] expression.e = "Assignment" ->
           LET r == interpreter_evaluate(I, expression.value)
               a == IF HasKey(r.I.locals, expression.reference)
                    THEN Environment_assign_at(r.I, r.I.environment,
                             r.I.locals[expression.reference], expression.reference,
                             r.value)
                    ELSE Environment_assign(r.I, r.I.globals, expression.reference,
                                            r.value)
           IN IF r.k # "ok" THEN r
              ELSE IF a.k # "ok" THEN a
              ELSE XOk(a.I, r.value)
      [] expression.e = "Call" ->
           Interpreter_evaluate_call(I, expression.callee, expression.args,
                                     expression.line, expression.column)
      [] expression.e = "AnonymousFunction" ->
           XOk(I, Callable(Len(expression.parameters),
                           LoxFunction(None, expression.parameters, expression.body,
                                       I.environment, FALSE)))
      [] expression.e = "Get" ->
           LET object == interpreter_evaluate(I, expression.object)
           IN IF object.k # "ok" THEN object
              ELSE IF object.value.t = "Instance"
              THEN LoxInstance_get(object.I, object.value.id, expression.identifier,
                                   expression.line, expression.column)
              ELSE XErr(object.I, RuntimeError(expression.line, expression.column,
                            [kind |-> "TypeIsNotInstance",
                             found |-> Value_type_name(object.value)]))
      [] expression.e = "Set" ->
           LET object == interpreter_evaluate(I, expression.object)
               value == interpreter_evaluate(object.I, expression.value)
           IN IF object.k # "ok" THEN object
              ELSE IF value.k # "ok" THEN value
              ELSE IF object.value.t = "Instance"
              THEN XOk(LoxInstance_set(value.I, object.value.id,
                                       expression.identifier, value.value),
                       value.value)
              ELSE XErr(value.I, RuntimeError(expression.line, expression.column,
                            [kind |-> "TypeIsNotInstance",
                             found |-> Value_type_name(object.value)]))
      [] expression.e = "This" ->
           Interpreter_lookup_variable(I,
               Reference(expression.line, expression.column, "this"))
      [] expression.e = "Super" -> evaluate_super(I, expression)

\* A call of a method of the Interpreter: `method` names it, `a` holds its arguments.
InterpreterCall(method, a) ==
    CASE method = "execute" -> Interpreter_execute(a[1], a[2])
      [] method = "execute_statements" -> Interpreter_execute_statements(a[1], a[2], a[3])
      [] method = "while_loop" -> Interpreter_while_loop(a[1], a[2], a[3])
      [] method = "evaluate" -> Interpreter_evaluate(a[1], a[2])
      [] method = "evaluate_arguments" -> Interpreter_evaluate_arguments(a[1], a[2], a[3], a[4])
      [] method = "call" -> Interpreter_call(a[1], a[2], a[3])
      [] method = "call_body" -> Interpreter_call_body(a[1], a[2], a[3], a[4], a[5], a[6])

(***************************************************************************)
(* The sources the runs are made on.  A source is a prelude followed by up *)
(* to MaxStatements top-level statements picked, in any order and with     *)
(* repetition, from the statements of the prelude's suite.                 *)
(***************************************************************************)
MaxStatements == 3

ScopePrelude ==
    <<"fun", "f", "(", ")", "{", "var", "a", "=", "1", ";", "{", "var", "a",
      "=", "2", ";", "print", "(", "a", ")", ";", "}", "print", "(", "a",
      ")", ";", "}", "fun", "g", "(", ")", "{", "var", "a", "=", "1", ";",
      "fun", "h", "(", ")", "{", "var", "a", "=", "2", ";", "print", "(",
      "a", ")", ";", "}", "h", "(", ")", ";", "print", "(", "a", ")", ";",
      "}">>

ScopeStatements ==
    <<<<"f", "(", ")", ";">>,
     <<"g", "(", ")", ";">>,
     <<"{", "var", "a", "=", "1", ";", "{", "var", "a", "=", "2", ";",
       "print", "(", "a", ")", ";", "}", "print", "(", "a", ")", ";", "}">>,
     <<"for", "(", "var", "i", "=", "0", ";", "i", "<", "3", ";", "i", "=",
       "i", "+", "1", ")", "{", "if", "(", "i", "==", "1", ")", "continue",
       ";", "print", "(", "i", ")", ";", "}">>,
     <<"{", "var", "a", "=", "7", ";", "{", "print", "(", "a", ")", ";", "}",
       "}">>>>

ClosurePrelude ==
    <<"fun", "make", "(", ")", "{", "var", "i", "=", "0", ";", "fun", "inc",
      "(", ")", "{", "i", "=", "i", "+", "1", ";", "print", "(", "i", ")",
      ";", "}", "return", "inc", ";", "}", "var", "c", "=", "make", "(", ")",
      ";", "var", "d", "=", "make", "(", ")", ";", "var", "bump", ";", "var",
      "show", ";", "{", "var", "n", "=", "0", ";", "fun", "b", "(", ")", "{",
      "n", "=", "n", "+", "1", ";", "}", "fun", "s", "(", ")", "{", "print",
      "(", "n", ")", ";", "}", "bump", "=", "b", ";", "show", "=", "s", ";",
      "b", "(", ")", ";", "print", "(", "n", ")", ";", "}">>

ClosureStatements ==
    <<<<"c", "(", ")", ";">>,
     <<"d", "(", ")", ";">>,
     <<"bump", "(", ")", ";">>,
     <<"show", "(", ")", ";">>>>

ClassPrelude ==
    <<"class", "Base", "{", "k", "(", ")", "{", "print", "(", "0", ")", ";",
      "return", "this", ";", "}", "}", "class", "A", "<", "Base", "{", "m",
      "(", ")", "{", "print", "(", "1", ")", ";", "return", "this", ";", "}",
      "}", "class", "B", "<", "A", "{", "m", "(", ")", "{", "print", "(",
      "2", ")", ";", "return", "this", ";", "}", "test", "(", ")", "{",
      "return", "super", ".", "m", "(", ")", ";", "}", "up", "(", ")", "{",
      "{", "return", "super", ".", "k", "(", ")", ";", "}", "}", "bad", "(",
      ")", "{", "return", "super", ".", "nope", "(", ")", ";", "}", "}",
      "class", "C", "<", "B", "{", "m", "(", ")", "{", "print", "(", "3",
      ")", ";", "return", "this", ";", "}", "k", "(", ")", "{", "print", "(",
      "9", ")", ";", "return", "this", ";", "}", "}", "var", "o", "=", "C",
      "(", ")", ";">>

ClassStatements ==
    <<<<"print", "(", "o", ".", "test", "(", ")", "==", "o", ")", ";">>,
     <<"print", "(", "o", ".", "up", "(", ")", "==", "o", ")", ";">>,
     <<"o", ".", "bad", "(", ")", ";">>,
     <<"print", "(", "B", "(", ")", ".", "test", "(", ")", "==", "o", ")",
       ";">>>>

InitPrelude ==
    <<"class", "P", "{", "init", "(", ")", "{", "this", ".", "x", "=", "1",
      ";", "}", "}", "class", "Q", "{", "init", "(", "n", ")", "{", "if",
      "(", "n", ")", "{", "return", ";", "}", "this", ".", "x", "=", "2",
      ";", "}", "}", "class", "R", "<", "P", "{", "init", "(", ")", "{",
      "var", "s", "=", "super", ".", "init", "(", ")", "==", "this", ";",
      "print", "(", "s", ")", ";",
      "while", "(", "true", ")", "{", "{", "return", ";", "}", "}", "}", "}",
      "var", "p", "=", "P", "(", ")", ";", "var", "q", "=", "Q", "(", "true",
      ")", ";", "var", "r", "=", "R", "(", ")", ";">>

InitStatements ==
    <<<<"print", "(", "p", ".", "init", "(", ")", "==", "p", ")", ";">>,
     <<"print", "(", "q", ".", "init", "(", "false", ")", "==", "q", ")",
       ";">>,
     <<"print", "(", "r", ".", "init", "(", ")", "==", "r", ")", ";">>,
     <<"{", "var", "b", "=", "q", ".", "init", ";", "print", "(", "b", "(",
       "true", ")", "==", "q", ")", ";", "}">>,
     <<"print", "(", "P", "(", ")", ".", "x", ")", ";">>>>

ErrorPrelude ==
    <<"fun", "boom", "(", ")", "{", "return", "nil", "*", "1", ";", "}",
      "fun", "deep", "(", ")", "{", "{", "while", "(", "true", ")", "{",
      "boom", "(", ")", ";", "}", "}", "print", "(", "2", ")", ";", "}">>

ErrorStatements ==
    <<<<"print", "(", "1", ")", ";">>,
     <<"boom", "(", ")", ";">>,
     <<"deep", "(", ")", ";">>,
     <<"{", "while", "(", "true", ")", "{", "if", "(", "true", ")", "{", "u",
       ";", "}", "}", "print", "(", "3", ")", ";", "}">>,
     <<"print", "(", "nil", "(", ")", ")", ";">>>>

ControlPrelude ==
    <<"fun", "f", "(", ")", "{", "while", "(", "true", ")", "{", "{",
      "return", "1", ";", "}", "}", "}", "fun", "g", "(", ")", "{", "fun",
      "h", "(", ")", "{", "return", "1", ";", "}", "h", "(", ")", ";",
      "return", "2", ";", "}">>

ControlStatements ==
    <<<<"{", "var", "i", "=", "0", ";", "while", "(", "i", "<", "2", ")", "{",
       "i", "=", "i", "+", "1", ";", "while", "(", "true", ")", "{", "break",
       ";", "}", "print", "(", "i", ")", ";", "}", "}">>,
     <<"{", "var", "j", "=", "0", ";", "while", "(", "j", "<", "2", ")", "{",
       "j", "=", "j", "+", "1", ";", "if", "(", "j", "==", "1", ")",
       "continue", ";", "print", "(", "j", ")", ";", "}", "}">>,
     <<"print", "(", "f", "(", ")", ")", ";">>,
     <<"print", "(", "g", "(", ")", ")", ";">>,
     <<"break", ";">>>>

UnaryPrelude ==
    <<"var", "x", "=", "1", ";", "fun", "id", "(", "a", ")", "{", "return",
      "a", ";", "}">>

UnaryStatements ==
    <<<<"-", "1", ";">>,
     <<"x", "=", "-", "1", ";">>,
     <<"id", "(", "-", "1", ")", ";">>,
     <<"1", "<", "-", "2", ";">>,
     <<"!", "x", ";">>,
     <<"*", "1", ";">>>>


\* `var x;` and then declarations in local scopes and at the top level.
DeclarePrelude == <<"var", "x", ";">>

DeclareStatements ==
    <<<<"fun", "f", "(", ")", "{", "var", "x", "=", "x", ";", "}">>,
     <<"{", "var", "x", "=", "1", ";", "{", "var", "y", "=", "x", ";", "}",
       "}">>,
     <<"{", "var", "y", "=", "1", ";", "var", "z", "=", "y", ";", "}">>,
     <<"{", "var", "x", "=", "x", ";", "}">>,
     <<"{", "var", "a", ";", "var", "a", ";", "}">>,
     <<"fun", "g", "(", "a", ",", "a", ")", "{", "}">>,
     <<"{", "fun", "h", "(", ")", "{", "}", "class", "h", "{", "}", "}">>,
     <<"var", "a", ";">>>>

\* `return` at the top level, in init and in functions nested in init.
ReturnPrelude ==
    <<"fun", "f", "(", ")", "{", "return", "1", ";", "}">>

ReturnStatements ==
    <<<<"return", ";">>,
     <<"return", "1", ";">>,
     <<"class", "K", "{", "init", "(", ")", "{", "return", "1", ";", "}", "}">>,
     <<"class", "L", "{", "init", "(", ")", "{", "return", ";", "}", "}">>,
     <<"class", "M", "{", "init", "(", ")", "{", "fun", "n", "(", ")", "{",
       "return", "1", ";", "}", "return", "2", ";", "}", "}">>,
     <<"class", "N", "{", "init", "(", ")", "{", "fun", "n", "(", ")", "{",
       "return", "1", ";", "}", "}", "m", "(", ")", "{", "return", "1", ";",
       "}", "}">>,
     <<"{", "fun", "g", "(", ")", "{", "}", "return", ";", "}">>>>

\* `break` and `continue` at the top level, in loops and in functions
\* declared in loops.
LoopPrelude == <<"var", "n", "=", "0", ";">>

LoopStatements ==
    <<<<"break", ";">>,
     <<"continue", ";">>,
     <<"while", "(", "true", ")", "{", "fun", "f", "(", ")", "{", "break",
       ";", "}", "}">>,
     <<"while", "(", "true", ")", "{", "fun", "g", "(", ")", "{", "}",
       "break", ";", "}">>,
     <<"while", "(", "true", ")", "{", "return", ";", "}">>,
     <<"{", "while", "(", "false", ")", "{", "}", "continue", ";", "}">>,
     <<"while", "(", "true", ")", "{", "while", "(", "false", ")", "{", "}",
       "break", ";", "}">>>>

\* `this` and `super` at the top level, in classes with and without a
\* superclass and in a class nested in a method of a subclass.
ThisPrelude == <<"class", "P", "{", "}">>

ThisStatements ==
    <<<<"this", ";">>,
     <<"super", ".", "m", ";">>,
     <<"class", "A", "{", "m", "(", ")", "{", "super", ".", "m", ";", "}",
       "}">>,
     <<"class", "B", "<", "B", "{", "}">>,
     <<"class", "S", "<", "P", "{", "m", "(", ")", "{", "class", "N", "{",
       "k", "(", ")", "{", "super", ".", "k", ";", "}", "}", "}", "}">>,
     <<"class", "T", "<", "P", "{", "m", "(", ")", "{", "class", "N", "{",
       "}", "super", ".", "m", ";", "this", ";", "}", "}">>,
     <<"class", "U", "{", "m", "(", ")", "{", "this", ";", "}", "}">>>>

\* `var g;` and then reads and assignments of g, of a block's `var l;` and
\* of a name that is never declared.
BindingPrelude == <<"var", "g", ";">>

BindingStatements ==
    <<<<"print", "(", "u", ")", ";">>,
     <<"print", "(", "g", ")", ";">>,
     <<"g", "=", "1", ";">>,
     <<"{", "var", "l", ";", "print", "(", "l", ")", ";", "}">>,
     <<"{", "var", "l", ";", "l", "=", "2", ";", "print", "(", "l", ")", ";",
       "print", "(", "l", ")", ";", "}">>,
     <<"{", "var", "l", ";", "{", "l", "=", "3", ";", "}", "print", "(", "l",
       ")", ";", "}">>,
     <<"g", "=", "2", ";">>>>

\* Calls of a function of two parameters, of a class whose init has one,
\* and of a number.
CallPrelude ==
    <<"fun", "two", "(", "a", ",", "b", ")", "{", "print", "(", "a", ")", ";",
      "print", "(", "b", ")", ";", "}", "class", "K", "{", "init", "(", "a",
      ")", "{", "print", "(", "a", ")", ";", "}", "}", "var", "n", "=", "0",
      ";">>

CallStatements ==
    <<<<"two", "(", "1", ",", "2", ")", ";">>,
     <<"two", "(", "1", ")", ";">>,
     <<"two", "(", "1", ",", "2", ",", "3", ")", ";">>,
     <<"K", "(", "7", ")", ";">>,
     <<"K", "(", ")", ";">>,
     <<"n", "(", ")", ";">>,
     <<"two", "(", "2", ",", "1", ")", ";">>>>

\* B < A, both define m, A defines k; o is an instance of B, p the same
\* instance and n a number.
PropertyPrelude ==
    <<"class", "A", "{", "m", "(", ")", "{", "print", "(", "1", ")", ";", "}",
      "k", "(", ")", "{", "print", "(", "5", ")", ";", "}", "}", "class", "B",
      "<", "A", "{", "m", "(", ")", "{", "print", "(", "2", ")", ";", "}",
      "who", "(", ")", "{", "return", "this", ";", "}", "}", "var", "o", "=",
      "B", "(", ")", ";", "var", "p", "=", "o", ";", "var", "n", "=", "0",
      ";">>

PropertyStatements ==
    <<<<"o", ".", "m", "(", ")", ";">>,
     <<"print", "(", "o", ".", "k", ")", ";">>,
     <<"p", ".", "k", "=", "7", ";">>,
     <<"print", "(", "o", ".", "who", "(", ")", "==", "p", ")", ";">>,
     <<"print", "(", "o", ".", "x", ")", ";">>,
     <<"print", "(", "n", ".", "x", ")", ";">>,
     <<"n", ".", "x", "=", "1", ";">>,
     <<"o", ".", "k", "=", "8", ";">>>>

\* Blocks, calls and a subclass declaration left by a signal, by an error
\* or normally, each followed by the read of a local of the enclosing scope.
FramePrelude ==
    <<"class", "A", "{", "}", "fun", "f", "(", ")", "{", "{", "{", "return",
      "1", ";", "}", "}", "}", "fun", "e", "(", ")", "{", "{", "nil", "(",
      ")", ";", "}", "}">>

FrameStatements ==
    <<<<"{", "var", "a", "=", "1", ";", "while", "(", "true", ")", "{", "{",
       "break", ";", "}", "}", "print", "(", "a", ")", ";", "}">>,
     <<"{", "var", "b", "=", "2", ";", "f", "(", ")", ";", "print", "(", "b",
       ")", ";", "}">>,
     <<"{", "var", "c", "=", "3", ";", "while", "(", "c", "<", "5", ")", "{",
       "c", "=", "c", "+", "1", ";", "{", "continue", ";", "}", "}", "print",
       "(", "c", ")", ";", "}">>,
     <<"{", "var", "d", "=", "4", ";", "class", "B", "<", "A", "{", "m", "(",
       ")", "{", "}", "}", "print", "(", "d", ")", ";", "}">>,
     <<"{", "{", "e", "(", ")", ";", "}", "}">>,
     <<"{", "var", "g", "=", "6", ";", "{", "{", "}", "}", "print", "(", "g",
       ")", ";", "}">>,
     <<"{", "fun", "h", "(", ")", "{", "var", "k", "=", "7", ";", "f", "(",
       ")", ";", "print", "(", "k", ")", ";", "}", "h", "(", ")", ";", "}">>>>

\* Classes with a superclass declared at the top level, in a block and in
\* a function, and reads, assignments, `this` and `super` below them.
DepthPrelude == <<"class", "P", "{", "k", "(", ")", "{", "return", "1", ";",
                  "}", "}">>

DepthStatements ==
    <<<<"{", "class", "A", "{", "}", "class", "B", "<", "A", "{", "}", "}">>,
     <<"{", "fun", "f", "(", ")", "{", "class", "C", "{", "}", "class", "D",
       "<", "C", "{", "}", "}", "f", "(", ")", ";", "}">>,
     <<"{", "class", "Q", "<", "P", "{", "m", "(", ")", "{", "return",
       "super", ".", "k", "(", ")", ";", "}", "}", "print", "(", "Q", "(",
       ")", ".", "m", "(", ")", ")", ";", "}">>,
     <<"{", "var", "a", "=", "1", ";", "{", "a", "=", "2", ";", "}", "print",
       "(", "a", ")", ";", "}">>,
     <<"{", "class", "E", "{", "m", "(", ")", "{", "return", "this", ";",
       "}", "}", "var", "e", "=", "E", "(", ")", ";", "print", "(", "e", ".",
       "m", "(", ")", "==", "e", ")", ";", "}">>,
     <<"class", "R", "<", "P", "{", "}">>>>

\* Class declarations whose superclass is a number, an undeclared name or
\* a class, and `var` declarations without initializer.
UnsetPrelude ==
    <<"var", "n", "=", "0", ";", "var", "g", ";", "class", "P", "{", "}">>

UnsetStatements ==
    <<<<"class", "X", "<", "n", "{", "}">>,
     <<"{", "class", "Y", "<", "n", "{", "}", "}">>,
     <<"class", "Z", "<", "P", "{", "m", "(", ")", "{", "return", "Z", ";",
       "}", "}">>,
     <<"{", "var", "l", ";", "class", "W", "{", "}", "}">>,
     <<"g", "=", "1", ";">>,
     <<"class", "V", "<", "u", "{", "}">>,
     <<"var", "h", ";">>>>

\* Fragments of statements, picked in any order: the sources that fail at
\* their first token, at Eof, before a `;` and before a keyword.
SyncPrelude == <<>>

SyncStatements ==
    <<<<"var">>,
     <<";">>,
     <<"1">>,
     <<")">>,
     <<"x", "=", "1", ";">>,
     <<"if">>,
     <<"var", "y", "=", "2", ";">>,
     <<"y", "+", ";">>>>

\* A defines init(x), B < A defines nothing; C and D < C define no init.
InheritPrelude ==
    <<"class", "A", "{", "init", "(", "x", ")", "{", "this", ".", "x", "=",
      "x", ";", "}", "}", "class", "B", "<", "A", "{", "}", "class", "C",
      "{", "}", "class", "D", "<", "C", "{", "}">>

InheritStatements ==
    <<<<"print", "(", "B", "(", "7", ")", ".", "x", ")", ";">>,
     <<"print", "(", "A", "(", "6", ")", ".", "x", ")", ";">>,
     <<"B", "(", ")", ";">>,
     <<"D", "(", ")", ";">>,
     <<"D", "(", "1", ")", ";">>,
     <<"C", "(", ")", ";">>>>

\* Two classes, two functions, an instance and a string, compared with
\* themselves, with one another in both orders and across kinds.
EqualPrelude ==
    <<"class", "A", "{", "m", "(", ")", "{", "}", "}", "class", "B", "{", "}",
      "fun", "f", "(", ")", "{", "}", "fun", "g", "(", ")", "{", "}", "var",
      "o", "=", "A", "(", ")", ";", "var", "s", "=", "readLine", "(", ")",
      ";">>

EqualStatements ==
    <<<<"print", "(", "A", "==", "A", ")", ";">>,
     <<"print", "(", "A", "!=", "A", ")", ";">>,
     <<"{", "print", "(", "f", "==", "f", ")", ";", "print", "(", "o", "==",
       "o", ")", ";", "print", "(", "o", ".", "m", "==", "o", ".", "m", ")",
       ";", "print", "(", "clock", "==", "clock", ")", ";", "}">>,
     <<"{", "print", "(", "s", "==", "s", ")", ";", "print", "(", "nil", "==",
       "nil", ")", ";", "print", "(", "true", "==", "true", ")", ";", "print",
       "(", "1", "==", "1", ")", ";", "print", "(", "o", "!=", "o", ")", ";",
       "}">>,
     <<"{", "print", "(", "(", "f", "==", "g", ")", "==", "(", "g", "==", "f",
       ")", ")", ";", "print", "(", "(", "A", "==", "B", ")", "==", "(", "B",
       "==", "A", ")", ")", ";", "print", "(", "(", "o", "==", "A", "(", ")",
       ")", "==", "(", "A", "(", ")", "==", "o", ")", ")", ";", "}">>,
     <<"{", "print", "(", "f", "==", "o", ")", ";", "print", "(", "1", "==",
       "s", ")", ";", "print", "(", "nil", "==", "false", ")", ";", "print",
       "(", "A", "==", "f", ")", ";", "print", "(", "clock", "==", "f", ")",
       ";", "}">>>>

\* A function that reads `a`, called before and after a block around it
\* declares another `a`, from a block and from a function that declare
\* their own `a`, and in a loop.
StaticPrelude == <<"var", "a", "=", "1", ";">>

StaticStatements ==
    <<<<"{", "fun", "show", "(", ")", "{", "print", "(", "a", ")", ";", "}",
       "show", "(", ")", ";", "var", "a", "=", "2", ";", "show", "(", ")",
       ";", "}">>,
     <<"{", "var", "a", "=", "3", ";", "{", "fun", "show", "(", ")", "{",
       "print", "(", "a", ")", ";", "}", "show", "(", ")", ";", "var", "a",
       "=", "4", ";", "show", "(", ")", ";", "}", "}">>,
     <<"{", "fun", "show", "(", ")", "{", "print", "(", "a", ")", ";", "}",
       "{", "var", "a", "=", "5", ";", "show", "(", ")", ";", "}", "fun",
       "call", "(", "f", ")", "{", "var", "a", "=", "6", ";", "f", "(", ")",
       ";", "}", "call", "(", "show", ")", ";", "}">>,
     <<"{", "fun", "show", "(", ")", "{", "print", "(", "a", ")", ";", "}",
       "var", "i", "=", "0", ";", "while", "(", "i", "<", "2", ")", "{", "i",
       "=", "i", "+", "1", ";", "show", "(", ")", ";", "var", "a", "=", "7",
       ";", "}", "}">>>>

\* `fun f(a, a, ..., a) { }` with MAX_NUMBER_OF_ARGUMENTS + 1 parameters.
LimitPrelude ==
    [i \in 1..(2 * MAX_NUMBER_OF_ARGUMENTS + 7) |->
        IF i = 1 THEN "fun" ELSE IF i = 2 THEN "f" ELSE IF i = 3 THEN "("
        ELSE IF i = 2 * MAX_NUMBER_OF_ARGUMENTS + 5 THEN ")"
        ELSE IF i = 2 * MAX_NUMBER_OF_ARGUMENTS + 6 THEN "{"
        ELSE IF i = 2 * MAX_NUMBER_OF_ARGUMENTS + 7 THEN "}"
        ELSE IF i % 2 = 0 THEN "a" ELSE ","]

Suite ==
    [Scope |-> [prelude |-> ScopePrelude, statements |-> ScopeStatements],
     Closure |-> [prelude |-> ClosurePrelude, statements |-> ClosureStatements],
     Class |-> [prelude |-> ClassPrelude, statements |-> ClassStatements],
     Init |-> [prelude |-> InitPrelude, statements |-> InitStatements],
     Error |-> [prelude |-> ErrorPrelude, statements |-> ErrorStatements],
     Control |-> [prelude |-> ControlPrelude, statements |-> ControlStatements],
     Unary |-> [prelude |-> UnaryPrelude, statements |-> UnaryStatements],
     Declare |-> [prelude |-> DeclarePrelude, statements |-> DeclareStatements],
     Return |-> [prelude |-> ReturnPrelude, statements |-> ReturnStatements],
     Loop |-> [prelude |-> LoopPrelude, statements |-> LoopStatements],
     This |-> [prelude |-> ThisPrelude, statements |-> ThisStatements],
     Binding |-> [prelude |-> BindingPrelude, statements |-> BindingStatements],
     Call |-> [prelude |-> CallPrelude, statements |-> CallStatements],
     Property |-> [prelude |-> PropertyPrelude, statements |-> PropertyStatements],
     Frame |-> [prelude |-> FramePrelude, statements |-> FrameStatements],
     Depth |-> [prelude |-> DepthPrelude, statements |-> DepthStatements],
     Unset |-> [prelude |-> UnsetPrelude, statements |-> UnsetStatements],
     Sync |-> [prelude |-> SyncPrelude, statements |-> SyncStatements],
     Inherit |-> [prelude |-> InheritPrelude, statements |-> InheritStatements],
     Equal |-> [prelude |-> EqualPrelude, statements |-> EqualStatements],
     Static |-> [prelude |-> StaticPrelude, statements |-> StaticStatements],
     Limit |-> [prelude |-> LimitPrelude, statements |-> <<>>]]

\* The picks of at most MaxStatements statements among n.
Picks(n) == UNION {[1..k -> 1..n] : k \in 0..MaxStatements}

Inputs ==
    UNION {{[suite |-> s, picks |-> q] : q \in Picks(Len(Suite[s].statements))} :
           s \in DOMAIN Suite}

RECURSIVE PickedWords(_, _, _)
PickedWords(statements, picks, i) ==
    IF i > Len(picks) THEN <<>>
    ELSE statements[picks[i]] \o PickedWords(statements, picks, i + 1)

\* The lexemes of the source of an input.
Source(in) ==
    Suite[in.suite].prelude \o PickedWords(Suite[in.suite].statements, in.picks, 1)

(***************************************************************************)
(* The state machine.  The driver that hands the parser's statements to    *)
(* the resolver and, when the resolver reported nothing, its table and the *)
(* statements to the interpreter, is not part of the sources; it is taken  *)
(* from the specification's pipeline (a later phase is skipped when an     *)
(* earlier one failed).  `out` is the stream of reported diagnostics.      *)
(***************************************************************************)
Diagnostic(stage, error) == [stage |-> stage, error |-> error]

RECURSIVE Diagnostics(_, _)
Diagnostics(stage, errors) ==
    IF errors = <<>> THEN <<>>
    ELSE <<Diagnostic(stage, Head(errors))>> \o Diagnostics(stage, Tail(errors))

\* The one-line sources are handed over as lexemes: the lexer holds nothing.
NoLexer == Lexer_scan_new(<<>>)

Init ==
    /\ input \in Inputs
    /\ tokens = ScanWords(Source(input))
    /\ phase = "parse"
    /\ lx = NoLexer
    /\ ps = [p |-> Parser_new, statements |-> <<>>, had_error |-> FALSE]
    /\ rs = [r |-> Resolver_new, i |-> 1]
    /\ it = [I |-> Interpreter_new, pc |-> 1]
    /\ out = <<>>

\* Parser::program: one iteration of its loop.
ParserProgramStep ==
    /\ phase = "parse"
    /\ ~Parser_is_done(tokens, ps.p)
    /\ \E step \in {Parser_program_iteration(tokens, ps)} :
          /\ ps' = step.s
          /\ out' = out \o Diagnostics("parser", step.reports)
          /\ phase' = IF step.panic THEN "panic" ELSE "parse"
    /\ UNCHANGED <<input, lx, tokens, rs, it>>

\* Parser::program: the loop is left and the statements are returned.
ParserReturn ==
    /\ phase = "parse"
    /\ Parser_is_done(tokens, ps.p)
    /\ phase' = "resolve"
    /\ UNCHANGED <<input, lx, tokens, ps, rs, it, out>>

\* Resolver::resolve: one iteration of its loop.
ResolverStep ==
    /\ phase = "resolve"
    /\ rs.i <= Len(ps.statements)
    /\ \E step \in {Resolver_resolve_iteration(rs.r, ps.statements[rs.i])} :
          /\ rs' = [r |-> step.r, i |-> rs.i + 1]
          /\ out' = out \o Diagnostics("resolver", step.reports)
    /\ UNCHANGED <<phase, input, lx, tokens, ps, it>>

\* Resolver::resolve returns; Interpreter::resolve_locals takes the table
\* unless the resolver had an error.
ResolverReturn ==
    /\ phase = "resolve"
    /\ rs.i > Len(ps.statements)
    /\ IF rs.r.had_error
       THEN phase' = "done" /\ it' = it
       ELSE /\ phase' = "run"
            /\ it' = [it EXCEPT !.I = Interpreter_resolve_locals(@, rs.r.locals)]
    /\ UNCHANGED <<input, lx, tokens, ps, rs, out>>

\* Interpreter::interpret: one iteration of its loop.  An error is reported
\* and the loop is left; "loop" is the statement still running at the
\* iteration bound.
InterpretStep ==
    /\ phase = "run"
    /\ it.pc <= Len(ps.statements)
    /\ \E r \in {interpreter_execute(it.I, ps.statements[it.pc])} :
          /\ it' = [I |-> r.I, pc |-> IF r.k = "ok" THEN it.pc + 1 ELSE it.pc]
          /\ out' = IF r.k = "err" THEN Append(out, Diagnostic("runtime", r.error))
                    ELSE out
          /\ phase' = CASE r.k = "ok" -> "run"
                        [] r.k = "err" -> "done"
                        [] r.k = "panic" -> "panic"
                        [] r.k = "running" -> "loop"
    /\ UNCHANGED <<input, lx, tokens, ps, rs>>

\* Interpreter::interpret returns after the last statement.
InterpretReturn ==
    /\ phase = "run"
    /\ it.pc > Len(ps.statements)
    /\ phase' = "done"
    /\ UNCHANGED <<input, lx, tokens, ps, rs, it, out>>

\* Lexer::scan: one iteration of its loop.
LexerScanStep ==
    /\ phase = "scan"
    /\ IsSome(Lexer_peek(lx.l))
    /\ \E step \in {Lexer_scan_iteration(lx)} :
          /\ lx' = step.s
          /\ out' = out \o Diagnostics("lexer", step.reports)
          /\ phase' = IF step.s.l.panic THEN "panic" ELSE "scan"
    /\ UNCHANGED <<input, tokens, ps, rs, it>>

\* Lexer::scan: the loop is left, Eof is pushed and the tokens are returned.
LexerScanReturn ==
    /\ phase = "scan"
    /\ ~IsSome(Lexer_peek(lx.l))
    /\ tokens' = Lexer_scan_output(lx)
    /\ phase' = "parse"
    /\ UNCHANGED <<input, lx, ps, rs, it, out>>

Next ==
    \/ ParserProgramStep
    \/ ParserReturn
    \/ ResolverStep
    \/ ResolverReturn
    \/ InterpretStep
    \/ InterpretReturn

Spec == Init /\ [][Next]_vars

(***************************************************************************)
(* The run of a source given by its bytes: every source of at most         *)
(* MaxSourceLength bytes over LexAlphabet and every source of at most      *)
(* MaxPieces pieces is scanned, and its tokens are parsed, resolved and    *)
(* interpreted.                                                            *)
(***************************************************************************)
MaxSourceLength == 4
LexAlphabet == {"\"", "@", "1", ";", "a", "\n", "/", "*"}
LexInputs == UNION {[1..n -> LexAlphabet] : n \in 0..MaxSourceLength}

\* The sources made of at most MaxPieces comment delimiters, identifiers,
\* newlines and lone `/` and `*`, that is the nested, adjacent, overlapping
\* and unterminated block comments.
MaxPieces == 5
CommentPieces == {<<"/", "*">>, <<"*", "/">>, <<"a">>, <<"\n">>, <<"/">>, <<"*">>}

RECURSIVE PieceSources(_)
PieceSources(n) ==
    IF n = 0 THEN {<<>>}
    ELSE LET shorter == PieceSources(n - 1)
         IN shorter \cup {source \o piece : source \in shorter, piece \in CommentPieces}

LexInit ==
    /\ input = [suite |-> "Bytes", picks |-> <<>>]
    /\ \E source \in LexInputs \cup PieceSources(MaxPieces) :
          lx = Lexer_scan_new(source)
    /\ tokens = <<>>
    /\ phase = "scan"
    /\ ps = [p |-> Parser_new, statements |-> <<>>, had_error |-> FALSE]
    /\ rs = [r |-> Resolver_new, i |-> 1]
    /\ it = [I |-> Interpreter_new, pc |-> 1]
    /\ out = <<>>

LexNext ==
    \/ LexerScanStep
    \/ LexerScanReturn
    \/ ParserProgramStep
    \/ ParserReturn
    \/ ResolverStep
    \/ ResolverReturn
    \/ InterpretStep
    \/ InterpretReturn

LexSpec == LexInit /\ [][LexNext]_vars

(***************************************************************************)
(* The runs of a prompt on one Interpreter: each line read is a source of  *)
(* its own, scanned, parsed and resolved by a new Parser and a new         *)
(* Resolver (both borrow the line), and then handed, with the resolver's   *)
(* table, to the Interpreter that ran the lines before it.  The lines are  *)
(* one-line sources, so a word has the same position in every line.        *)
(***************************************************************************)
MaxRuns == 2

\* Lines 1, 3 and 5 read or assign a local at the word where lines 2, 4 and
\* 6 read or assign a global of the same name.
ReplLines ==
    <<<<"{", "var", "a", "=", "1", ";", "{", "{", "print", "(", "a", ")", ";",
       "}", "}", "}">>,
     <<"var", "a", "=", "2", ";", "var", "b", ";", "print", "(", "a", ")",
       ";">>,
     <<"{", "var", "c", "=", "4", ";", "print", "(", "c", ")", ";", "}">>,
     <<"var", "c", "=", "5", ";", "{", "print", "(", "c", ")", ";", "}">>,
     <<"{", "var", "e", "=", "6", ";", "e", "=", "7", ";", "}">>,
     <<"var", "e", "=", "8", ";", "{", "e", "=", "9", ";", "}", "print", "(",
       "e", ")", ";">>>>

ReplInputs ==
    UNION {{[suite |-> "Repl", picks |-> q, run |-> 1] :
               q \in [1..k -> DOMAIN ReplLines]} : k \in 1..MaxRuns}

ReplInit ==
    /\ input \in ReplInputs
    /\ tokens = ScanWords(ReplLines[input.picks[1]])
    /\ phase = "parse"
    /\ lx = NoLexer
    /\ ps = [p |-> Parser_new, statements |-> <<>>, had_error |-> FALSE]
    /\ rs = [r |-> Resolver_new, i |-> 1]
    /\ it = [I |-> Interpreter_new, pc |-> 1]
    /\ out = <<>>

\* The run of a line is over and the next line is read: the Interpreter is
\* kept, the Parser and the Resolver are new.
ReplReadLine ==
    /\ phase = "done"
    /\ input.run < Len(input.picks)
    /\ input' = [input EXCEPT !.run = @ + 1]
    /\ tokens' = ScanWords(ReplLines[input.picks[input.run + 1]])
    /\ phase' = "parse"
    /\ ps' = [p |-> Parser_new, statements |-> <<>>, had_error |-> FALSE]
    /\ rs' = [r |-> Resolver_new, i |-> 1]
    /\ it' = [I |-> it.I, pc |-> 1]
    /\ UNCHANGED <<lx, out>>

ReplNext ==
    \/ ParserProgramStep
    \/ ParserReturn
    \/ ResolverStep
    \/ ResolverReturn
    \/ InterpretStep
    \/ InterpretReturn
    \/ ReplReadLine

ReplSpec == ReplInit /\ [][ReplNext]_vars

(***************************************************************************)
(* Properties.  Each statement picked by an input is one top-level         *)
(* statement, so the statements the interpreter has completed are the      *)
(* prelude's and then the picks in order.                                  *)
(***************************************************************************)
\* interpret() was called on the statements parse() returned.
Started ==
    /\ ~ps.had_error
    /\ ~rs.r.had_error
    /\ phase \in {"run", "loop", "done"}

PreludeLength == Len(ps.statements) - Len(input.picks)
Completed == it.pc - 1
CompletedPicks == IF Completed > PreludeLength THEN Completed - PreludeLength ELSE 0

\* The statement interpret() stopped at is the k-th pick.
StoppedAtPick(k) ==
    /\ Started
    /\ phase = "done"
    /\ Completed >= PreludeLength
    /\ Completed < Len(ps.statements)
    /\ k = CompletedPicks + 1

IsPrefix(s, t) == Len(s) <= Len(t) /\ s = SubSeq(t, 1, Len(s))

RECURSIVE Lines(_, _, _)
\* The lines of the first n picks, table[q] being the lines of statement q.
Lines(table, picks, n) ==
    IF n = 0 THEN <<>> ELSE Lines(table, picks, n - 1) \o table[picks[n]]

\* stdout is the prelude's lines and then the lines of the completed picks.
Prints(prelude, table) ==
    IF Completed < PreludeLength THEN IsPrefix(it.I.printed, prelude)
    ELSE it.I.printed = prelude \o Lines(table, input.picks, CompletedPicks)

RuntimeDiagnostics == SelectSeq(out, LAMBDA d : d.stage = "runtime")
ParserDiagnostics == SelectSeq(out, LAMBDA d : d.stage = "parser")

\* interpret() stops exactly at the first pick whose entry in `errors` is
\* not "", reporting that kind of error, and at no other statement.
Fails(errors) ==
    /\ \A k \in 1..CompletedPicks : errors[input.picks[k]] = ""
    /\ IF \E k \in DOMAIN input.picks : StoppedAtPick(k)
       THEN /\ Len(out) = 1
            /\ out[1].stage = "runtime"
            /\ out[1].error.source.kind = errors[input.picks[CompletedPicks + 1]]
       ELSE out = <<>>
    /\ phase = "done" => \/ Completed = Len(ps.statements)
                         \/ \E k \in DOMAIN input.picks : StoppedAtPick(k)

(***************************************************************************)
(* C1.  The Scope suite: f and g declare `a` in a function body and again  *)
(* in a nested block (f) or a nested function (g); statement 3 does so in  *)
(* two nested blocks and statement 5 declares `a` once.                    *)
(***************************************************************************)
ShadowLines == <<<<"2", "1">>, <<"2", "1">>, <<"2", "1">>, <<>>, <<"7">>>>
ShadowStatements == {1, 2, 3, 5}

\* C1: a use of a name declared in several enclosing local scopes reads the
\* nearest declaration: the inner `print(a)` writes 2 and the outer one
\* still writes 1, for nested blocks and nested functions alike.
C1_NearestDeclarationShadows ==
    (/\ input.suite = "Scope"
     /\ \A k \in DOMAIN input.picks : input.picks[k] \in ShadowStatements
     /\ Started
     /\ phase = "done")
    => it.I.printed = Lines(ShadowLines, input.picks, Len(input.picks))

(***************************************************************************)
(* C2.  Statement 4 of the Scope suite is                                  *)
(*   for (var i=0; i<3; i=i+1) { if (i==1) continue; print(i); }           *)
(***************************************************************************)
\* C2: a `for` loop whose body executes `continue` still runs its increment:
\* the program writes 0 then 2 and the loop is left (it is never still
\* running at the iteration bound).
C2_ContinueRunsTheIncrement ==
    (/\ input.suite = "Scope"
     /\ input.picks = <<4>>
     /\ phase \in {"loop", "done"})
    => /\ phase = "done"
       /\ it.I.printed = <<"0", "2">>

(***************************************************************************)
(* C3.  The Closure suite: c and d are counters made by two calls of       *)
(* make(); b and s are siblings closing over n, b was called once in the   *)
(* prelude and the enclosing block then printed n.  Statements: c(); d();  *)
(* bump(); show();                                                         *)
(***************************************************************************)
RECURSIVE ClosureLines(_, _, _, _, _)
\* The lines of the picks from the i-th on, c and d being the counters of
\* the two closures and n the variable shared by bump and show.
ClosureLines(picks, i, c, d, n) ==
    IF i > Len(picks) THEN <<>>
    ELSE CASE picks[i] = 1 -> <<ToString(c + 1)>> \o ClosureLines(picks, i + 1, c + 1, d, n)
           [] picks[i] = 2 -> <<ToString(d + 1)>> \o ClosureLines(picks, i + 1, c, d + 1, n)
           [] picks[i] = 3 -> ClosureLines(picks, i + 1, c, d, n + 1)
           [] OTHER -> <<ToString(n)>> \o ClosureLines(picks, i + 1, c, d, n)

\* C3: closures alias the scope they capture: the block that called b()
\* reads the n it wrote, show() reads the writes of every bump(), each call
\* of a counter writes one more than its previous call, and the counters of
\* two calls of make() are independent.
C3_ClosuresAliasTheirScope ==
    (input.suite = "Closure" /\ Started)
    => /\ out = <<>>
       /\ IF Completed < PreludeLength THEN IsPrefix(it.I.printed, <<"1">>)
          ELSE it.I.printed =
                   <<"1">> \o ClosureLines(SubSeq(input.picks, 1, CompletedPicks), 1, 0, 0, 1)

C3_Witness ==
    /\ input.suite = "Closure"
    /\ input.picks = <<1, 3, 4>>
    /\ phase = "done"
    /\ it.I.printed = <<"1", "1", "2">>

(***************************************************************************)
(* C4.  The Class suite: C < B < A < Base, m is defined by A, B and C, k   *)
(* by Base and C; B.test returns super.m(), B.up returns super.k() from a  *)
(* nested block, B.bad evaluates super.nope; o is an instance of C.        *)
(***************************************************************************)
SuperLines == <<<<"1", "true">>, <<"0", "true">>, <<>>, <<"1", "false">>>>
SuperErrors == <<"", "", "UndefinedProperty", "">>

\* C4: in a method of B < A, super.m is the m found from A upward, never
\* B's or the runtime class's, bound to the current `this`; a method that
\* no class from A upward defines is UndefinedProperty.
C4_SuperSearchesFromTheSuperclass ==
    (input.suite = "Class" /\ Started)
    => Prints(<<>>, SuperLines) /\ Fails(SuperErrors)

C4_Witness ==
    /\ input.suite = "Class"
    /\ input.picks = <<1, 2, 3>>
    /\ StoppedAtPick(3)
    /\ it.I.printed = <<"1", "true", "0", "true">>
    /\ out[1].error.source.kind = "UndefinedProperty"

(***************************************************************************)
(* C5.  The Init suite: P.init falls off its end, Q.init executes a bare   *)
(* `return;` in a nested block, R.init calls super.init() and returns from *)
(* a loop; the statements compare the result of init called through        *)
(* property access and through a stored bound method with the instance.    *)
(***************************************************************************)
InitLines == <<<<"true">>, <<"true">>, <<"true", "true">>, <<"true">>, <<"1">>>>

\* C5: every invocation of an init method returns the instance it is bound
\* to, through the class, through property access, through super and through
\* a stored bound method, whether the body ends or executes `return;`.
C5_InitReturnsTheInstance ==
    (input.suite = "Init" /\ Started)
    => Prints(<<"true">>, InitLines) /\ out = <<>>

C5_Witness ==
    /\ input.suite = "Init"
    /\ input.picks = <<2, 3, 4>>
    /\ phase = "done"
    /\ it.I.printed = <<"true", "true", "true", "true", "true">>

(***************************************************************************)
(* C6.  The Unary suite: -1;  x = -1;  id(-1);  1 < -2;  !x;  *1;          *)
(***************************************************************************)
LeadingOperatorStatements == {6}

\* C6: a prefix `-` or `!` is accepted as the first token of an expression,
\* of an argument, of an assignment's right-hand side and of a right
\* operand; only a leading binary operator (here `*`) is reported.
C6_PrefixMinusIsAccepted ==
    (input.suite = "Unary" /\ phase \in {"resolve", "run", "done"})
    => (ps.had_error <=>
            \E k \in DOMAIN input.picks : input.picks[k] \in LeadingOperatorStatements)

(***************************************************************************)
(* C7.  The Error suite: boom() multiplies nil; deep() calls boom() in a   *)
(* loop in a block and then prints 2.  Statements: print(1); boom();       *)
(* deep(); a block whose loop reads an undeclared name and then prints 3;  *)
(* print(nil());                                                           *)
(***************************************************************************)
ErrorLines == <<<<"1">>, <<>>, <<>>, <<>>, <<>>>>
ErrorErrors == <<"", "TypeError", "TypeError", "UndeclaredVariable", "TypeIsNotCallable">>

\* C7: a runtime error raised under blocks, loops and calls is caught by
\* none of them: interpret() reports it once and stops, so the rest of the
\* failing statement and the statements after it write nothing.
C7_RuntimeErrorStopsTheProgram ==
    /\ Len(RuntimeDiagnostics) <= 1
    /\ Len(RuntimeDiagnostics) = 1 => phase = "done" /\ it.pc <= Len(ps.statements)
    /\ (input.suite = "Error" /\ Started) => Prints(<<>>, ErrorLines) /\ Fails(ErrorErrors)

C7_Witness ==
    /\ input.suite = "Error"
    /\ input.picks = <<1, 3, 1>>
    /\ StoppedAtPick(2)
    /\ it.I.printed = <<"1">>
    /\ Len(RuntimeDiagnostics) = 1

(***************************************************************************)
(* C8.  The Control suite: statement 1 breaks out of the inner of two      *)
(* loops (1, then 2 after the outer loop's own break), statement 2         *)
(* continues a loop once, f returns from a block in a loop, g returns      *)
(* after calling an inner function that returns; statement 5 is a `break`  *)
(* outside any loop, which the resolver rejects.                           *)
(***************************************************************************)
ControlLines == <<<<"1", "2">>, <<"2">>, <<"1">>, <<"2">>, <<>>>>
ControlSignals == {"Break", "Continue", "Return"}

\* C8: in a program the resolver accepts, Break, Continue and Return never
\* reach interpret(): the innermost loop consumes Break and Continue, the
\* innermost call consumes Return and yields its value.
C8_ControlSignalsNeverSurface ==
    /\ \A i \in DOMAIN out :
           out[i].stage = "runtime" => out[i].error.source.kind \notin ControlSignals
    /\ (input.suite = "Control" /\ Started) => Prints(<<>>, ControlLines) /\ out = <<>>

C8_Witness ==
    /\ input.suite = "Control"
    /\ input.picks = <<1, 3, 4>>
    /\ phase = "done"
    /\ it.I.printed = <<"1", "2", "1", "2">>
    /\ out = <<>>

(***************************************************************************)
(* C9.  The diagnostics of the parser are those of failed declarations     *)
(* (in `out`) and the limit diagnostics of parameters() and arguments()    *)
(* (counted by ps.p.reported).                                             *)
(***************************************************************************)
ParseReturned == phase \in {"resolve", "run", "loop", "done"}

\* C9 as stated: if the parser reported at least one error, parse() returns
\* the empty list.
C9_AnyReportEmptiesTheProgram ==
    (ParseReturned /\ Len(ParserDiagnostics) + ps.p.reported >= 1)
    => ps.statements = <<>>

\* C9 amended: if a top-level declaration failed, parse() returns the empty
\* list, whatever was parsed before or after it, and nothing is resolved or
\* executed; a declaration fails exactly when its error is reported.
C9_FailedDeclarationEmptiesTheProgram ==
    /\ ps.had_error <=> ParserDiagnostics # <<>>
    /\ ps.had_error => /\ ps.statements = <<>>
                       /\ rs.r.locals = EmptyMap
                       /\ it.I.printed = <<>>
                       /\ it.pc = 1

C9_Witness ==
    /\ input.suite = "Unary"
    /\ input.picks = <<5, 1, 5>>
    /\ phase = "done"
    /\ Len(ParserDiagnostics) = 1
    /\ ps.statements = <<>>

(***************************************************************************)
(* C10.  Under LexSpec `tokens` is empty until Lexer::scan returns.        *)
(***************************************************************************)
LexerDiagnostics == SelectSeq(out, LAMBDA d : d.stage = "lexer")
ScanReturned == tokens # <<>>

\* The bytes that only `"` and `/` can hide from scan_token's last arm.
PlainSource == \A i \in DOMAIN lx.l.source : lx.l.source[i] \notin {"\"", "/"}
UnexpectedBytes == {i \in DOMAIN lx.l.source : lx.l.source[i] = "@"}

\* C10: Lexer::scan returns a sequence whose last element, and only that
\* one, is Eof; if a lexical error was reported the sequence is exactly
\* [Eof], so that nothing is parsed or evaluated; the scan goes on to the
\* end of the source after an error and reports the later errors too.
C10_ScanReturnsEofLast ==
    /\ lx.has_error <=> LexerDiagnostics # <<>>
    /\ ScanReturned =>
           /\ tokens[Len(tokens)].kind = "Eof"
           /\ \A i \in 1..(Len(tokens) - 1) : tokens[i].kind # "Eof"
           /\ lx.l.current = Len(lx.l.source)
           /\ LexerDiagnostics # <<>> => Len(tokens) = 1
           /\ PlainSource => Len(LexerDiagnostics) = Cardinality(UnexpectedBytes)
    /\ LexerDiagnostics # <<>> =>
           /\ ps.p.current = 0
           /\ ps.statements = <<>>
           /\ it.pc = 1
           /\ Len(out) = Len(LexerDiagnostics)

C10_Witness ==
    /\ lx.l.source = <<"1", "@", ";", "@">>
    /\ phase = "done"
    /\ tokens = <<Token("Eof", 0, 4, "")>>
    /\ Len(LexerDiagnostics) = 2

(***************************************************************************)
(* The diagnostics of the resolver.  resolve() is at a pick when the       *)
(* statement its loop takes next is that pick; the reports of a step are   *)
(* the diagnostics the step appends to the stream.                         *)
(***************************************************************************)
ResolvingPick(q) ==
    /\ phase = "resolve"
    /\ ~ps.had_error
    /\ rs.i > PreludeLength
    /\ rs.i <= Len(ps.statements)
    /\ input.picks[rs.i - PreludeLength] = q

NewReports == SubSeq(out', Len(out) + 1, Len(out'))

ReportKinds(reports) == [i \in DOMAIN reports |-> reports[i].error.source.kind]

ResolverDiagnostics == SelectSeq(out, LAMBDA d : d.stage = "resolver")

\* resolve() has returned.
Resolved == ~ps.had_error /\ phase \in {"run", "loop", "done"}

(***************************************************************************)
(* C11.  The Declare suite, statements 1 to 4:                             *)
(*   fun f() { var x = x; }        { var x = 1; { var y = x; } }           *)
(*   { var y = 1; var z = y; }     { var x = x; }                          *)
(***************************************************************************)
SelfInitializerReports ==
    <<<<"AttemptedToAccessVariableInItsOwnInitializer">>, <<>>, <<>>,
      <<"AttemptedToAccessVariableInItsOwnInitializer">>>>

\* C11: a `var x = <expr>` in a local scope whose initializer reads x in
\* that scope is reported as AttemptedToAccessVariableInItsOwnInitializer,
\* in a function body under a global x as in a block; a read of a name the
\* innermost scope does not hold, or holds as defined, is not reported,
\* whatever was resolved before.
C11_SelfInitializerReadIsRejected ==
    [][\A q \in DOMAIN SelfInitializerReports :
          (input.suite = "Declare" /\ ResolvingPick(q))
          => ReportKinds(NewReports) = SelfInitializerReports[q]]_vars

C11_Witness ==
    /\ input.suite = "Declare"
    /\ input.picks = <<2, 3, 1>>
    /\ phase = "done"
    /\ Len(out) = 1
    /\ out[1].stage = "resolver"
    /\ out[1].error.source.kind = "AttemptedToAccessVariableInItsOwnInitializer"
    /\ out[1].error.column = WordColumn(Len(DeclarePrelude) + 14 + 12 + 9)

(***************************************************************************)
(* C12.  The Declare suite: statements 5 to 7 declare a name twice in one  *)
(* local scope,                                                            *)
(*   { var a; var a; }     fun g(a, a) { }     { fun h() { } class h { } } *)
(* statements 1 and 8 (`var a;`) are declarations at the top level, and    *)
(* statements 2 to 4 declare each name of a scope once.                    *)
(***************************************************************************)
RedeclaredNames ==
    <<<<>>, <<>>, <<>>, <<>>, <<"a">>, <<"a">>, <<"h">>, <<>>>>

\* The names the step reports as AttemptedToRedeclareVariable.
NewRedeclarations ==
    LET reports == SelectSeq(NewReports, LAMBDA d :
                       d.error.source.kind = "AttemptedToRedeclareVariable")
    IN [i \in DOMAIN reports |-> reports[i].error.source.identifier]

\* C12: the second declaration of a name in one local scope (var, parameter,
\* function and class) is reported as AttemptedToRedeclareVariable(name),
\* and no other statement is: a declaration at the top level is never
\* reported, whatever the same run of resolve() resolved before it.
C12_TopLevelIsNeverARedeclaration ==
    [][\A q \in DOMAIN RedeclaredNames :
          (input.suite = "Declare" /\ ResolvingPick(q))
          => NewRedeclarations = RedeclaredNames[q]]_vars

(***************************************************************************)
(* C13.  The Return suite, after `fun f() { return 1; }`:                  *)
(*   1  return;              2  return 1;                                  *)
(*   3  class K { init() { return 1; } }                                   *)
(*   4  class L { init() { return; } }                                     *)
(*   5  class M { init() { fun n() { return 1; } return 2; } }             *)
(*   6  class N { init() { fun n() { return 1; } } m() { return 1; } }     *)
(*   7  { fun g() { } return; }                                            *)
(***************************************************************************)
ReturnReports ==
    <<<<"UnexpectedReturnStatement">>, <<"UnexpectedReturnStatement">>,
      <<"CannotReturnFromInitializer">>, <<>>,
      <<"CannotReturnFromInitializer">>, <<>>,
      <<"UnexpectedReturnStatement">>>>

\* C13: every `return` outside the functions is reported as
\* UnexpectedReturnStatement, also after a function body has ended, and
\* every `return <value>;` directly in init as CannotReturnFromInitializer,
\* also after a function nested in init has ended; `return;` in init and
\* `return <value>;` in a function nested in init or in another method are
\* not reported.
C13_ReturnIsJudgedByItsFunction ==
    [][\A q \in DOMAIN ReturnReports :
          (input.suite = "Return" /\ ResolvingPick(q))
          => ReportKinds(NewReports) = ReturnReports[q]]_vars

(***************************************************************************)
(* C14.  The Loop suite:                                                   *)
(*   1  break;               2  continue;                                  *)
(*   3  while (true) { fun f() { break; } }                                *)
(*   4  while (true) { fun g() { } break; }                                *)
(*   5  while (true) { return; }                                           *)
(*   6  { while (false) { } continue; }                                    *)
(*   7  while (true) { while (false) { } break; }                          *)
(***************************************************************************)
LoopReports ==
    <<<<"UnexpectedBreakStatement">>, <<"UnexpectedContinueStatement">>,
      <<"UnexpectedBreakStatement">>, <<>>, <<>>,
      <<"UnexpectedContinueStatement">>, <<>>>>

\* The kinds the step reports for a `break` or a `continue`.
NewLoopReports ==
    SelectSeq(ReportKinds(NewReports), LAMBDA kind :
        kind \in {"UnexpectedBreakStatement", "UnexpectedContinueStatement"})

\* C14: every `break` and `continue` with no loop around it in its own
\* function body is reported, at the top level, in a function declared in a
\* loop and after a loop has ended; in a loop body they are not reported,
\* also after a function declared in the body or an inner loop has ended.
C14_BreakIsJudgedByItsLoop ==
    [][\A q \in DOMAIN LoopReports :
          (input.suite = "Loop" /\ ResolvingPick(q))
          => NewLoopReports = LoopReports[q]]_vars

(***************************************************************************)
(* C15.  The This suite, after `class P { }`:                              *)
(*   1  this;                2  super.m;                                   *)
(*   3  class A { m() { super.m; } }                                       *)
(*   4  class B < B { }                                                    *)
(*   5  class S < P { m() { class N { k() { super.k; } } } }               *)
(*   6  class T < P { m() { class N { } super.m; this; } }                 *)
(*   7  class U { m() { this; } }                                          *)
(***************************************************************************)
ThisReports ==
    <<<<"UnexpectedThisKeyword">>, <<"UnexpectedSuperKeyword">>,
      <<"UnexpectedSuperKeyword">>, <<"ClassCannotInheritFromItself">>,
      <<"UnexpectedSuperKeyword">>, <<>>, <<>>>>

\* The kinds the step reports for a `this`, a `super` or a superclass.
NewClassReports ==
    SelectSeq(ReportKinds(NewReports), LAMBDA kind :
        kind \in {"UnexpectedThisKeyword", "UnexpectedSuperKeyword",
                  "ClassCannotInheritFromItself"})

\* C15: every `this` outside the class bodies is reported as
\* UnexpectedThisKeyword, every `super` outside the bodies of the classes
\* that have a superclass as UnexpectedSuperKeyword, also in a class
\* without superclass nested in a method of a subclass, and a class that
\* names itself as superclass as ClassCannotInheritFromItself; `this` in a
\* class body and `super` in a subclass, also after a nested class has
\* ended, are not reported.
C15_ThisAndSuperAreJudgedByTheirClass ==
    [][\A q \in DOMAIN ThisReports :
          (input.suite = "This" /\ ResolvingPick(q))
          => NewClassReports = ThisReports[q]]_vars

(***************************************************************************)
(* C16.  The Binding suite, after `var g;`:                                *)
(*   1  print(u);            2  print(g);            3  g = 1;             *)
(*   4  { var l; print(l); }                                               *)
(*   5  { var l; l = 2; print(l); print(l); }                              *)
(*   6  { var l; { l = 3; } print(l); }                                    *)
(*   7  g = 2;                                                             *)
(***************************************************************************)
RECURSIVE BindingRun(_, _, _, _)
\* The run of the picks from the i-th on, g being the value assigned to the
\* global g ("" while it has none) and `lines` the lines written so far: the
\* lines of the run, the error that stops it ("" when none does) with the
\* name it carries, and the number of picks completed.
BindingRun(picks, i, g, lines) ==
    LET stop(kind, name) ==
            [lines |-> lines, error |-> kind, name |-> name, completed |-> i - 1]
    IN IF i > Len(picks) THEN stop("", "")
       ELSE CASE picks[i] = 1 -> stop("UndeclaredVariable", "u")
              [] picks[i] = 2 ->
                   IF g = "" THEN stop("UnassignedVariable", "g")
                   ELSE BindingRun(picks, i + 1, g, Append(lines, g))
              [] picks[i] = 3 -> BindingRun(picks, i + 1, "1", lines)
              [] picks[i] = 4 -> stop("UnassignedVariable", "l")
              [] picks[i] = 5 ->
                   BindingRun(picks, i + 1, g, lines \o <<"2", "2">>)
              [] picks[i] = 6 -> BindingRun(picks, i + 1, g, Append(lines, "3"))
              [] picks[i] = 7 -> BindingRun(picks, i + 1, "2", lines)

\* C16: a read of a name never declared is UndeclaredVariable; a read of a
\* name declared by `var x;` and not assigned since is UnassignedVariable,
\* for the global and for the local; an assignment to such a name succeeds,
\* in its scope and from a nested one, and every read after an assignment
\* yields the value assigned last.
C16_ReadsDistinguishTheBindingStates ==
    (input.suite = "Binding" /\ Started)
    => LET run == BindingRun(input.picks, 1, "", <<>>)
       IN /\ IsPrefix(it.I.printed, run.lines)
          /\ phase = "done"
             => /\ it.I.printed = run.lines
                /\ CompletedPicks = run.completed
                /\ IF run.error = "" THEN out = <<>>
                   ELSE /\ Len(out) = 1
                        /\ out[1].stage = "runtime"
                        /\ out[1].error.source.kind = run.error
                        /\ out[1].error.source.name = run.name

C16_Witness ==
    /\ input.suite = "Binding"
    /\ input.picks = <<3, 2, 4>>
    /\ phase = "done"
    /\ it.I.printed = <<"1">>
    /\ Len(out) = 1
    /\ out[1].error.source = [kind |-> "UnassignedVariable", name |-> "l"]

(***************************************************************************)
(* C17.  The Call suite, after                                             *)
(*   fun two(a, b) { print(a); print(b); }                                 *)
(*   class K { init(a) { print(a); } }     var n = 0;                      *)
(* the statements                                                          *)
(*   1  two(1, 2);     2  two(1);     3  two(1, 2, 3);     4  K(7);        *)
(*   5  K();           6  n();        7  two(2, 1);                        *)
(***************************************************************************)
CallLines == <<<<"1", "2">>, <<>>, <<>>, <<"7">>, <<>>, <<>>, <<"2", "1">>>>

CallErrors ==
    <<"", "ImcorrectNumberOfArguments", "ImcorrectNumberOfArguments", "",
      "ImcorrectNumberOfArguments", "TypeIsNotCallable", "">>

\* The number of parameters of the callee and of arguments of the call.
CallCounts == <<<<2, 2>>, <<2, 1>>, <<2, 3>>, <<1, 1>>, <<1, 0>>, <<0, 0>>, <<2, 2>>>>

\* C17: a call with as many arguments as the callee has parameters binds
\* the i-th parameter to the i-th argument; a call with another number of
\* arguments is ImcorrectNumberOfArguments {expected, found}, and nothing of
\* the callee runs: no line is written and no instance is created; a call
\* of a number is TypeIsNotCallable.
C17_CallsCheckTheArity ==
    (input.suite = "Call" /\ Started)
    => /\ Prints(<<>>, CallLines)
       /\ Fails(CallErrors)
       /\ Completed >= PreludeLength
          => Len(it.I.instances) =
                 Cardinality({k \in 1..CompletedPicks : input.picks[k] = 4})
       /\ \A k \in DOMAIN input.picks :
             (StoppedAtPick(k) /\ input.picks[k] # 6)
             => /\ out[1].error.source.expected = CallCounts[input.picks[k]][1]
                /\ out[1].error.source.found = CallCounts[input.picks[k]][2]

C17_Witness ==
    /\ input.suite = "Call"
    /\ input.picks = <<4, 7, 5>>
    /\ StoppedAtPick(3)
    /\ it.I.printed = <<"7", "2", "1">>
    /\ Len(it.I.instances) = 1
    /\ out[1].error.source =
           [kind |-> "ImcorrectNumberOfArguments", expected |-> 1, found |-> 0]

(***************************************************************************)
(* C18.  The Property suite, after                                         *)
(*   class A { m() { print(1); } k() { print(5); } }                       *)
(*   class B < A { m() { print(2); } who() { return this; } }              *)
(*   var o = B();     var p = o;     var n = 0;                            *)
(* the statements                                                          *)
(*   1  o.m();           2  print(o.k);      3  p.k = 7;                   *)
(*   4  print(o.who() == p);                 5  print(o.x);                *)
(*   6  print(n.x);      7  n.x = 1;         8  o.k = 8;                   *)
(***************************************************************************)
RECURSIVE PropertyRun(_, _, _, _)
\* The run of the picks from the i-th on, k being the value of the field k
\* of the instance ("" while it has none) and `lines` the lines written so
\* far: the lines of the run, the error that stops it ("" when none does)
\* and the number of picks completed.
PropertyRun(picks, i, k, lines) ==
    LET stop(kind) == [lines |-> lines, error |-> kind, completed |-> i - 1]
    IN IF i > Len(picks) THEN stop("")
       ELSE CASE picks[i] = 1 -> PropertyRun(picks, i + 1, k, Append(lines, "2"))
              [] picks[i] = 2 ->
                   PropertyRun(picks, i + 1, k,
                               Append(lines, IF k = "" THEN "<fn k>" ELSE k))
              [] picks[i] = 3 -> PropertyRun(picks, i + 1, "7", lines)
              [] picks[i] = 4 -> PropertyRun(picks, i + 1, k, Append(lines, "true"))
              [] picks[i] = 5 -> stop("UndefinedProperty")
              [] picks[i] \in {6, 7} -> stop("TypeIsNotInstance")
              [] picks[i] = 8 -> PropertyRun(picks, i + 1, "8", lines)

\* C18: o.name is the field when the instance has it, also when a class of
\* the chain defines a method of that name; else the method of the nearest
\* class of the chain, bound to o; else UndefinedProperty.  A write creates
\* or replaces the field of the one instance every alias names, and a read
\* or write on a number is TypeIsNotInstance.
C18_FieldsShadowMethods ==
    (input.suite = "Property" /\ Started)
    => LET run == PropertyRun(input.picks, 1, "", <<>>)
       IN /\ IsPrefix(it.I.printed, run.lines)
          /\ Len(it.I.instances) <= 1
          /\ phase = "done"
             => /\ it.I.printed = run.lines
                /\ CompletedPicks = run.completed
                /\ IF run.error = "" THEN out = <<>>
                   ELSE /\ Len(out) = 1
                        /\ out[1].stage = "runtime"
                        /\ out[1].error.source.kind = run.error

C18_Witness ==
    /\ input.suite = "Property"
    /\ input.picks = <<2, 3, 2>>
    /\ phase = "done"
    /\ it.I.printed = <<"<fn k>", "7">>
    /\ it.I.instances[1].fields = [k |-> Number(7)]

(***************************************************************************)
(* C19.  Block comments.  An iteration of Lexer::scan that starts at `/*`  *)
(* scans a block comment.                                                  *)
(***************************************************************************)
AtBlockComment ==
    /\ phase = "scan"
    /\ Lexer_peek(lx.l) = Some("/")
    /\ Lexer_double_peek(lx.l) = Some("*")

RECURSIVE CommentEnd(_, _, _)
\* The number of bytes before the end of a comment whose depth is `depth`
\* after the first i bytes of the source: the depth rises at each `/*`,
\* falls at each `*/`, and the comment ends behind the `*/` that brings it
\* to 0, or with the source.
CommentEnd(source, i, depth) ==
    IF depth = 0 THEN i
    ELSE IF i >= Len(source) THEN Len(source)
    ELSE IF i + 2 <= Len(source) /\ source[i + 1] = "/" /\ source[i + 2] = "*"
    THEN CommentEnd(source, i + 2, depth + 1)
    ELSE IF i + 2 <= Len(source) /\ source[i + 1] = "*" /\ source[i + 2] = "/"
    THEN CommentEnd(source, i + 2, depth - 1)
    ELSE CommentEnd(source, i + 1, depth)

\* C19: the iteration that starts at `/*` ends exactly behind the `*/` that
\* brings the depth, 1 after the `/*`, to 0, or at the end of the source
\* when no `*/` does, without calling next() there; it pushes no token and
\* reports nothing.
C19_BlockCommentsNest ==
    [][AtBlockComment
       => /\ lx'.l.current = CommentEnd(lx.l.source, lx.l.current + 2, 1)
          /\ lx'.output = lx.output
          /\ lx'.has_error = lx.has_error
          /\ ~lx'.l.panic
          /\ out' = out
          /\ phase' = "scan"]_vars

\* /*/**/*/a
C19_Witness ==
    /\ lx.l.source = <<"/", "*", "/", "*", "*", "/", "*", "/", "a">>
    /\ phase # "scan"
    /\ tokens = <<Token("Identifier", 0, 8, "a"), Token("Eof", 0, 9, "")>>
    /\ out = <<>>

(***************************************************************************)
(* C20.  The position of the `;` tokens.  When Lexer::scan returned as     *)
(* many Semicolon tokens as the source has `;` bytes, the k-th token is    *)
(* the k-th byte.                                                          *)
(***************************************************************************)
SemicolonBytes == {i \in DOMAIN lx.l.source : lx.l.source[i] = ";"}
SemicolonTokens == SelectSeq(tokens, LAMBDA t : t.kind = "Semicolon")
KthSemicolon(k) ==
    CHOOSE i \in SemicolonBytes :
        Cardinality({j \in SemicolonBytes : j < i}) = k - 1

\* The newline bytes before the i-th byte of the source.
NewlinesBefore(i) == {j \in 1..(i - 1) : lx.l.source[j] = "\n"}

\* The bytes between the start of its line and the i-th byte of the source.
OffsetInLine(i) ==
    Cardinality({j \in 1..(i - 1) : \A n \in NewlinesBefore(i) : n < j})

\* C20: the line of a token is the number of newline bytes before its first
\* byte and its column the offset of that byte in its line, whether the
\* newlines stand alone, end a `//` comment or lie in a block comment or a
\* string.
C20_TokensCarryTheirPosition ==
    (input.suite = "Bytes" /\ ScanReturned
     /\ Len(SemicolonTokens) = Cardinality(SemicolonBytes))
    => \A k \in 1..Len(SemicolonTokens) :
          /\ SemicolonTokens[k].line = Cardinality(NewlinesBefore(KthSemicolon(k)))
          /\ SemicolonTokens[k].column = OffsetInLine(KthSemicolon(k))

(***************************************************************************)
(* C21.  The Frame suite: each statement enters blocks or calls that are   *)
(* left by Break (1), Return (2, 7), Continue (3), normally (4, 6: the     *)
(* declaration of a subclass and empty blocks) or by a runtime error (5),  *)
(* and then reads a local of the block it came back to.                    *)
(***************************************************************************)
FrameLines == <<<<"1">>, <<"2">>, <<"5">>, <<"4">>, <<>>, <<"6">>, <<"7">>>>
FrameErrors == <<"", "", "", "", "TypeIsNotCallable", "", "">>

\* C21: execute_block, call and the declaration of a subclass leave
\* `environment` as they found it, on success, on a runtime error and on
\* Break, Continue or Return raised at any depth: the statement that follows
\* the block or call reads its own scope's locals, and between two
\* top-level statements and after interpret() returns `environment` is the
\* globals scope.
C21_EnvironmentIsRestoredOnEveryExit ==
    /\ phase \in {"parse", "resolve", "run", "done"} =>
           it.I.environment = it.I.globals
    /\ (input.suite = "Frame" /\ Started) =>
           /\ Prints(<<>>, FrameLines)
           /\ Fails(FrameErrors)

\* interpret() returned after blocks were left by Break and by Return and a
\* runtime error crossed a call and two blocks.
C21_Witness ==
    /\ input.suite = "Frame"
    /\ input.picks = <<1, 2, 5>>
    /\ phase = "done"
    /\ it.I.printed = <<"1", "2">>
    /\ Len(it.I.envs) > 6
    /\ RuntimeDiagnostics # <<>>

(***************************************************************************)
(* C22.  The Depth suite declares a class and its subclass in one block    *)
(* (1) and in one function body (2), a subclass of a global class in a     *)
(* block (3) and at the top level (6), and reads and assigns locals and    *)
(* `this` below their scope (4, 5).  In the evaluator a panic is a         *)
(* lookup_at, assign_at or ancestor that found no scope or no key.         *)
(***************************************************************************)
\* The evaluator panicked: parse() and resolve() had returned.
EvaluatorPanicked ==
    /\ phase = "panic"
    /\ Parser_is_done(tokens, ps.p)
    /\ rs.i > Len(ps.statements)

\* C22: in a program the resolver accepts, every reference with a depth is
\* evaluated where the scope that depth leads to exists and holds the
\* reference's identifier: no lookup_at or assign_at panics, and no
\* UndeclaredVariable is reported for a reference of the resolver's table.
C22_RecordedDepthsLeadToTheName ==
    /\ ~EvaluatorPanicked
    /\ \A i \in DOMAIN RuntimeDiagnostics :
          LET error == RuntimeDiagnostics[i].error
          IN error.source.kind = "UndeclaredVariable" =>
                ~HasKey(rs.r.locals,
                        Reference(error.line, error.column, error.source.name))

(***************************************************************************)
(* C23.  The Unset suite declares classes whose superclass is a number (1, *)
(* 2), a class (3) or an undeclared name (6), a class next to a `var`      *)
(* without initializer (4), and assigns the prelude's `var g;` (5).  The   *)
(* sources name no class like a variable.                                  *)
(***************************************************************************)
\* The names the source declares by `var name;`.
UninitializedNames ==
    {tokens[i + 1].text : i \in {j \in 1..(Len(tokens) - 2) :
        /\ tokens[j].kind = "Var"
        /\ tokens[j + 1].kind = "Identifier"
        /\ tokens[j + 2].kind = "Semicolon"}}

\* The names bound as declared and unassigned in some environment.
UnassignedNames ==
    {name \in UNION {DOMAIN it.I.envs[e].values : e \in DOMAIN it.I.envs} :
        \E e \in DOMAIN it.I.envs :
            /\ HasKey(it.I.envs[e].values, name)
            /\ it.I.envs[e].values[name] = Unassigned}

\* C23: wherever the evaluator stands outside the execution of a class
\* declaration, a binding that is declared and unassigned is a variable
\* declared by `var` without initializer: the name of a class is never seen
\* unassigned by an expression, and a declaration that fails with
\* SuperClassMustBeAClass or in its superclass expression binds nothing.
C23_UnassignedBindingsAreUninitializedVars ==
    UnassignedNames \subseteq UninitializedNames

\* A declaration failed with SuperClassMustBeAClass after a class and a
\* `var l;` were declared; g and l are the unassigned bindings.
C23_Witness ==
    /\ input.suite = "Unset"
    /\ input.picks = <<3, 4, 2>>
    /\ phase = "done"
    /\ Len(RuntimeDiagnostics) = 1
    /\ RuntimeDiagnostics[1].error.source.kind = "SuperClassMustBeAClass"
    /\ UnassignedNames = {"g", "l"}

(***************************************************************************)
(* C24.  The Sync suite is made of fragments, so that a declaration fails  *)
(* at Eof (`var`), before a `;` (`y + ;`), before a keyword (`1 var`) and  *)
(* several times in one source.  A step of the parser outside Eof is one   *)
(* iteration of the loop of Parser::program.                               *)
(***************************************************************************)
SyncKeywords == {"If", "For", "While", "Fun", "Return", "Class", "Var"}

\* The first cursor after `current` (or `current` itself on Eof) at which
\* the token just consumed is `;` or the next token is a keyword or Eof.
SyncStop(current) ==
    IF tokens[current + 1].kind = "Eof" THEN current
    ELSE LET stops == {q \in (current + 1)..(Len(tokens) - 1) :
                          \/ tokens[q].kind = "Semicolon"
                          \/ tokens[q + 1].kind \in SyncKeywords \cup {"Eof"}}
         IN CHOOSE q \in stops : \A other \in stops : q <= other

\* C24: every iteration of parse()'s loop that returns moves the cursor
\* forward, and the cursor stays on the token list, so parse() terminates;
\* a failed declaration is reported and parsing resumes where synchronise
\* stops, which is the first cursor after the failure (the failure's own
\* cursor on Eof) with a `;` just consumed or a keyword or Eof next.
C24_ParseSynchronisesAndTerminates ==
    [][(phase = "parse" /\ ~Parser_is_done(tokens, ps.p)) =>
          LET declaration == parser_declaration(tokens, ps.p)
          IN /\ phase' = "parse" =>
                   /\ ps'.p.current > ps.p.current
                   /\ ps'.p.current < Len(tokens)
             /\ (~declaration.ok /\ ~declaration.panic) =>
                   /\ phase' = "parse"
                   /\ ps'.had_error
                   /\ Len(out') > Len(out)
                   /\ out'[Len(out')] = Diagnostic("parser", declaration.error)
                   /\ ps'.p.current = SyncStop(declaration.p.current)]_vars

\* parse() returned after two failed declarations: the second one starts at
\* the keyword the first synchronise stopped before.
C24_Witness ==
    /\ input.suite = "Sync"
    /\ input.picks = <<3, 4, 1>>
    /\ phase = "resolve"
    /\ Len(ParserDiagnostics) = 2

(***************************************************************************)
(* C25.  In the Sync suite the sources that begin with `;` (2) or `)` (4)  *)
(* fail in Parser::primary with the cursor at 0; the parser panics where   *)
(* previous() is called at cursor 0.                                       *)
(***************************************************************************)
\* The parser panicked: the cursor is not on Eof.
ParserPanicked ==
    /\ phase = "panic"
    /\ ~Parser_is_done(tokens, ps.p)

\* C25: the cursor never leaves the token list: peek() is called with
\* current < len and previous() with current >= 1, so the parser never
\* panics, and a source whose first token cannot start a statement is
\* reported ExpectedExpression as its first diagnostic.
C25_CursorStaysOnTheTokenList ==
    /\ ~ParserPanicked
    /\ ps.p.current < Len(tokens)
    /\ ( /\ input.suite = "Sync"
         /\ input.picks # <<>>
         /\ input.picks[1] \in {2, 4}
         /\ phase \in {"resolve", "run", "done"} ) =>
           /\ ParserDiagnostics # <<>>
           /\ ParserDiagnostics[1].error.source.kind = "ExpectedExpression"

(***************************************************************************)
(* C26.  The resolver's context between two top-level statements, in every *)
(* suite: the Declare, Return, Loop and This suites hold the statements    *)
(* that fail inside a block, a function, a loop and a class.               *)
(***************************************************************************)
\* C26: at the start of each top-level statement the resolver's scope stack
\* is empty, is_in_loop is false and function_kind and class_kind are None,
\* whether or not an earlier statement reported an error; had_error, once
\* set, stays set.
C26_ResolverContextIsRestored ==
    [][/\ (phase' = "resolve" /\ rs'.i <= Len(ps'.statements)) =>
              /\ rs'.r.scopes = <<>>
              /\ ~rs'.r.is_in_loop
              /\ rs'.r.function_kind = "None"
              /\ rs'.r.class_kind = "None"
       /\ rs.r.had_error => rs'.r.had_error]_vars

(***************************************************************************)
(* C27.  The runs of ReplSpec.  Every line declares what it reads, so each *)
(* line writes the same whatever ran before it.                            *)
(***************************************************************************)
ReplPrints == <<<<"1">>, <<"2">>, <<"4">>, <<"5">>, <<>>, <<"9">>>>

\* C27: a reference the resolver of the current run left out of its table
\* is read and assigned in the globals scope, whatever depth an earlier run
\* recorded for a reference at the same line and column with the same
\* name: no run panics or fails, and each line writes its own value.
C27_GlobalsIgnoreEarlierDepths ==
    /\ ~EvaluatorPanicked
    /\ RuntimeDiagnostics = <<>>
    /\ phase = "done" => it.I.printed = Lines(ReplPrints, input.picks, input.run)

(***************************************************************************)
(* C28.  The Inherit suite calls a class that inherits init(x) with one    *)
(* argument (1) and with none (3), the class that defines it (2), and      *)
(* classes with no init in their chain with no argument (4, 6) and with    *)
(* one (5).                                                                *)
(***************************************************************************)
InheritLines == <<<<"7">>, <<"6">>, <<>>, <<>>, <<>>, <<>>>>
InheritErrors == <<"", "", "ImcorrectNumberOfArguments", "",
                   "ImcorrectNumberOfArguments", "">>

\* C28: a class is called with the `init` that find_method returns for it,
\* inherited ones included: B has the arity of A's init, B(7) runs A's init
\* on the new instance, so that B(7).x is 7 and B() is refused, and a class
\* takes no argument only when no class of its chain defines init.
C28_CallingAClassUsesTheInheritedInit ==
    (input.suite = "Inherit" /\ Started) =>
        /\ Prints(<<>>, InheritLines)
        /\ Fails(InheritErrors)

(***************************************************************************)
(* C29.  The Equal suite writes v == v and v != v for a class (1, 2), v == *)
(* v for a function, an instance, a bound method, a native function, a     *)
(* string, nil, a boolean and a number (3, 4), (a == b) == (b == a) for    *)
(* two functions, two classes and two instances (5), and a == b for values *)
(* of different kinds (6).                                                 *)
(***************************************************************************)
EqualLines ==
    <<<<"true">>,
      <<"false">>,
      <<"true", "true", "true", "true">>,
      <<"true", "true", "true", "true", "false">>,
      <<"true", "true", "true">>,
      <<"false", "false", "false", "false", "false">>>>

\* C29: `==` is reflexive and symmetric on nil, booleans, numbers, strings,
\* native functions, user functions, bound methods, classes and instances,
\* `!=` is its negation, and values of different kinds are never equal.
C29_EqualityIsReflexiveAndSymmetric ==
    (input.suite = "Equal" /\ Started) =>
        /\ Prints(<<>>, EqualLines)
        /\ RuntimeDiagnostics = <<>>

(***************************************************************************)
(* C30.  The Static suite: show() reads `a` and is called before and after *)
(* `var a` in the block that declares show (1, with the global `a`; 2,     *)
(* with the `a` of an outer block), from a block and from a function that  *)
(* declare their own `a` (3), and twice in a loop whose body declares `a`  *)
(* (4).                                                                    *)
(***************************************************************************)
StaticLines == <<<<"1", "1">>, <<"3", "3">>, <<"1", "1">>, <<"1", "1">>>>

\* C30: a reference in a function body reads the same declaration on every
\* execution, whatever is declared later in the blocks around the function
\* and whatever scope the function is called from: each call of show()
\* writes the `a` that was in scope where show was declared.
C30_ScopingIsStatic ==
    (input.suite = "Static" /\ Started) =>
        /\ Prints(<<>>, StaticLines)
        /\ RuntimeDiagnostics = <<>>
        /\ phase \in {"run", "done"}

\* show() was called before and after a later `var a`, under an outer `a`
\* and from scopes with their own `a`.
C30_Witness ==
    /\ input.suite = "Static"
    /\ input.picks = <<1, 2, 3>>
    /\ phase = "done"
    /\ it.I.printed = <<"1", "1", "3", "3", "1", "1">>

====
